---- MODULE Spec2Model ----
(***************************************************************************)
(* Model of the execution layer of node-db-abstraction.                    *)
(*                                                                         *)
(*  - SQLite (src/src/SQLite.ts): three queues drained by the Metronome    *)
(*    tick handler, the submission points query() and transaction(), and   *)
(*    close().  Every await of the handler is a separate step, so callers, *)
(*    timers and the close() poll can interleave with a drain cycle.       *)
(*  - MySQL / Postgres (src/src/MySQL.ts, Postgres.ts): transaction() on a *)
(*    connection taken from the pool.                                      *)
(*                                                                         *)
(* The drivers (sqlite3, mysql, pg) are outside the repository: every call *)
(* to them may succeed or fail.                                            *)
(***************************************************************************)
EXTENDS Integers, Sequences, FiniteSets, TLC

\* ------------------------------------------------------------------ bounds
MaxOps == 3          \* operations submitted to the SQLite backend
MaxHandlers == 2     \* tick handler activations that may coexist
MaxCallers == 2      \* concurrent callers of the pooled transaction()
PoolSize == 2        \* connections of the pool

Ops == 1..MaxOps
Handlers == 1..MaxHandlers
Callers == 1..MaxCallers
Conns == 1..PoolSize

\* ------------------------------------------------------------------ inputs
\* statement texts, as character sequences
QSelect == <<"S", "e", "l", "e", "c", "t">>
QInsert == <<"i", "n", "s", "e", "r", "t">>
QueryTexts == {QSelect, QInsert}

\* statement lists handed to transaction()
TxInputs == {<< >>, <<QInsert, QSelect>>}

\* ------------------------------------------------------------- SQLite state
VARIABLES
    m_transactionQueue,   \* ITransactionQueueEntry[]
    m_allQueue,           \* IQueryQueueEntry[] (reads)
    m_runQueue,           \* IQueryQueueEntry[] (writes)
    paused,               \* m_timer.paused
    tick,                 \* the activations of the async tick handler
    m_db,                 \* the sqlite3 Database: "open", "closing", "closed"
    closer,               \* the promise executor of close()
    submitted,            \* number of operations submitted so far
    opInfo,               \* class and statements of each submitted operation
    handle,               \* the promise returned by query()/transaction()
    handleErr,            \* the error a handle was rejected with
    \* observers (history of the run, never read by the program)
    execCount,            \* how often an operation was dequeued for execution
    doneCount,            \* how often an operation's callback was invoked
    cycleOps,             \* operations dequeued so far by the running drain cycle
    txlog,                \* driver calls completed for a transaction
    siblings,             \* operations that were queued when one failed in the running cycle
    lateOps,              \* queued operations submitted after the loop of their class ended
    atTick                \* the operations that were queued when the running drain cycle started

\* ------------------------------------------------------------- pooled state
VARIABLES
    backend,              \* "mysql" or "postgres"
    pool,                 \* pool[c]: the caller holding connection c, or 0
    ptx,                  \* the activations of the pooled transaction()
    relCount              \* how often each caller released its connection

\* ------------------------------------------------- createTable and helpers
VARIABLES
    ct,                   \* the activation of createTable()
    fn                    \* the call of a helper under study: arguments and result

sqliteVars == <<m_transactionQueue, m_allQueue, m_runQueue, paused, tick,
                m_db, closer, submitted, opInfo, handle, handleErr,
                execCount, doneCount, cycleOps, txlog, siblings, lateOps,
                atTick>>
poolVars == <<backend, pool, ptx, relCount>>
auxVars == <<ct, fn>>
vars == <<sqliteVars, poolVars, auxVars>>

\* --------------------------------------------------------------- text helpers
UpperCaseLetters == <<"A", "B", "C", "D", "E", "F", "G", "H", "I", "J", "K", "L", "M", "N", "O", "P", "Q", "R", "S", "T", "U", "V", "W", "X", "Y", "Z">>
LowerCaseLetters == <<"a", "b", "c", "d", "e", "f", "g", "h", "i", "j", "k", "l", "m", "n", "o", "p", "q", "r", "s", "t", "u", "v", "w", "x", "y", "z">>

\* String.prototype.toLowerCase, one character
ToLowerChar(c) ==
    IF \E i \in 1..Len(UpperCaseLetters) : UpperCaseLetters[i] = c
       THEN LowerCaseLetters[CHOOSE i \in 1..Len(UpperCaseLetters) : UpperCaseLetters[i] = c]
       ELSE c

ToLowerCase(s) == [i \in 1..Len(s) |-> ToLowerChar(s[i])]

StartsWith(s, p) == Len(s) >= Len(p) /\ SubSeq(s, 1, Len(p)) = p

SelectPrefix == <<"s", "e", "l", "e", "c", "t">>

\* query.toLowerCase().startsWith('select')
IsSelect(q) == StartsWith(ToLowerCase(q), SelectPrefix)

\* ----------------------------------------------------------------- queues
NoError == [op |-> 0, call |-> "none", i |-> 0]
Error(o, c, k) == [op |-> o, call |-> c, i |-> k]
Call(c, k, ok) == [call |-> c, i |-> k, ok |-> ok]

TxEntry(o, qs) == [id |-> o, queries |-> qs, query |-> << >>]
QueryEntry(o, q) == [id |-> o, queries |-> << >>, query |-> q]
NoEntry == [id |-> 0, queries |-> << >>, query |-> << >>]
NoOp == [class |-> "none", queries |-> << >>]

\* variant: unshift instead of push
Push_Front(q, e) == <<e>> \o q

\* Array.prototype.push
Push(q, e) == Append(q, e)

\* variant: the head is read but not removed
Shift_Peek(q) == q

\* the queue left behind by Array.prototype.shift
Shift(q) == Tail(q)

QueueOf(c) ==
    CASE c = "tx" -> m_transactionQueue
      [] c = "read" -> m_allQueue
      [] c = "write" -> m_runQueue

QueuedIds == {m_transactionQueue[i].id : i \in 1..Len(m_transactionQueue)}
             \cup {m_allQueue[i].id : i \in 1..Len(m_allQueue)}
             \cup {m_runQueue[i].id : i \in 1..Len(m_runQueue)}

\* ------------------------------------------------------------------- Init
IdleHandler == [pc |-> "idle", phase |-> 0, entry |-> NoEntry, i |-> 0, e |-> NoError]

SQLiteInit ==
    /\ m_transactionQueue = << >>
    /\ m_allQueue = << >>
    /\ m_runQueue = << >>
    /\ paused = FALSE
    /\ tick = [h \in Handlers |-> IdleHandler]
    /\ m_db = "open"
    /\ closer = "none"
    /\ submitted = 0
    /\ opInfo = [o \in Ops |-> NoOp]
    /\ handle = [o \in Ops |-> "none"]
    /\ handleErr = [o \in Ops |-> NoError]
    /\ execCount = [o \in Ops |-> 0]
    /\ doneCount = [o \in Ops |-> 0]
    /\ cycleOps = {}
    /\ txlog = [o \in Ops |-> << >>]
    /\ siblings = {}
    /\ lateOps = {}
    /\ atTick = {}

IdleCaller == [pc |-> "none", kind |-> "none", conn |-> 0, on |-> 0, queries |-> << >>,
               i |-> 0, e |-> NoError]

PoolInitVars ==
    /\ pool = [c \in Conns |-> 0]
    /\ ptx = [t \in Callers |-> IdleCaller]
    /\ relCount = [t \in Callers |-> 0]

\* no createTable() and no helper call is in progress
IdleCt == [pc |-> "none"]
NoCall == [name |-> "none"]
AuxIdle == ct = IdleCt /\ fn = NoCall

Init ==
    /\ SQLiteInit
    /\ backend = "mysql"
    /\ PoolInitVars
    /\ AuxIdle

\* ------------------------------------------------------------ submission
\* the position of the while loop of each class in the tick handler
LoopOf(c) == CASE c = "tx" -> 1 [] c = "read" -> 2 [] c = "write" -> 3

\* a running drain cycle is already past the loop of class c
LoopIsOver(c) ==
    \E h \in Handlers : tick[h].pc \notin {"idle", "rejected"} /\ tick[h].phase > LoopOf(c)

\* SQLite.query: the executor pushes one entry and returns the pending promise
Query(q) ==
    /\ submitted < MaxOps
    /\ LET o == submitted + 1 IN
        /\ submitted' = o
        /\ handle' = [handle EXCEPT ![o] = "pending"]
        /\ IF IsSelect(q)
              THEN /\ m_allQueue' = Push(m_allQueue, QueryEntry(o, q))
                   /\ opInfo' = [opInfo EXCEPT ![o] = [class |-> "read", queries |-> <<q>>]]
                   /\ lateOps' = IF LoopIsOver("read") THEN lateOps \cup {o} ELSE lateOps
                   /\ UNCHANGED m_runQueue
              ELSE /\ m_runQueue' = Push(m_runQueue, QueryEntry(o, q))
                   /\ opInfo' = [opInfo EXCEPT ![o] = [class |-> "write", queries |-> <<q>>]]
                   /\ lateOps' = IF LoopIsOver("write") THEN lateOps \cup {o} ELSE lateOps
                   /\ UNCHANGED m_allQueue
    /\ UNCHANGED <<m_transactionQueue, paused, tick, m_db, closer, handleErr,
                   execCount, doneCount, cycleOps, txlog, siblings, atTick>>
    /\ UNCHANGED <<poolVars, auxVars>>

\* SQLite.transaction
Transaction(qs) ==
    /\ submitted < MaxOps
    /\ LET o == submitted + 1 IN
        /\ submitted' = o
        /\ handle' = [handle EXCEPT ![o] = "pending"]
        /\ opInfo' = [opInfo EXCEPT ![o] = [class |-> "tx", queries |-> qs]]
        /\ m_transactionQueue' = Push(m_transactionQueue, TxEntry(o, qs))
        /\ lateOps' = IF LoopIsOver("tx") THEN lateOps \cup {o} ELSE lateOps
    /\ UNCHANGED <<m_allQueue, m_runQueue, paused, tick, m_db, closer, handleErr,
                   execCount, doneCount, cycleOps, txlog, siblings, atTick>>
    /\ UNCHANGED <<poolVars, auxVars>>

\* ------------------------------------------------------------ tick handler
\* variant: the write loop placed before the read loop
PhaseOrder_WritesFirst == <<"tx", "write", "read">>

\* the order of the three while loops of the handler
PhaseOrder == <<"tx", "read", "write">>

\* the await a dequeued entry of class c is first suspended on
PcOf(c) ==
    CASE c = "tx" -> "connection"
      [] c = "read" -> "all"
      [] c = "write" -> "run"

\* variant: the handler has no loop for the last queue
NextPhase_NoLastLoop(p) ==
    LET live == {k \in p..(Len(PhaseOrder) - 1) : Len(QueueOf(PhaseOrder[k])) > 0}
    IN  IF live = {} THEN 0 ELSE CHOOSE k \in live : \A j \in live : k <= j

\* the first loop, from loop p on, whose condition `length > 0` holds; 0 if none
NextPhase(p) ==
    LET live == {k \in p..Len(PhaseOrder) : Len(QueueOf(PhaseOrder[k])) > 0}
    IN  IF live = {} THEN 0 ELSE CHOOSE k \in live : \A j \in live : k <= j

\* variant: the handler does not pause the timer
PausedOnEntry_Unset == FALSE

\* this.m_timer.paused = true
PausedOnEntry == TRUE

\* queuedTransaction.callback(e, ...) / queue.callback(e, ...): settles the
\* promise of the entry the handler holds
Callback(entry, e) ==
    /\ handle' = [handle EXCEPT ![entry.id] =
                      IF @ = "pending"
                         THEN (IF e = NoError THEN "resolved" ELSE "rejected")
                         ELSE @]
    /\ handleErr' = [handleErr EXCEPT ![entry.id] =
                      IF handle[entry.id] = "pending" THEN e ELSE @]
    /\ doneCount' = [doneCount EXCEPT ![entry.id] = @ + 1]

\* The handler runs from the head of loop p up to its next await: it shifts
\* the next entry of the first non-empty queue and suspends on its first
\* driver call, or falls through all loops and resumes the timer.
\* pz is the value of m_timer.paused while suspended; base, sib and at are
\* what the observers cycleOps, siblings and atTick hold of this drain cycle
\* so far.
Continue(h, p, pz, base, sib, at) ==
    LET k == NextPhase(p) IN
    IF k = 0
       THEN /\ paused' = FALSE
            /\ tick' = [tick EXCEPT ![h] = IdleHandler]
            /\ cycleOps' = {}
            /\ siblings' = {}
            /\ atTick' = {}
            /\ UNCHANGED <<m_transactionQueue, m_allQueue, m_runQueue, execCount, lateOps>>
       ELSE LET c == PhaseOrder[k]
                entry == Head(QueueOf(c))
            IN  /\ paused' = pz
                /\ tick' = [tick EXCEPT ![h] =
                               [pc |-> PcOf(c), phase |-> k, entry |-> entry,
                                i |-> 0, e |-> NoError]]
                /\ m_transactionQueue' =
                       IF c = "tx" THEN Shift(m_transactionQueue) ELSE m_transactionQueue
                /\ m_allQueue' = IF c = "read" THEN Shift(m_allQueue) ELSE m_allQueue
                /\ m_runQueue' = IF c = "write" THEN Shift(m_runQueue) ELSE m_runQueue
                /\ execCount' = [execCount EXCEPT ![entry.id] = @ + 1]
                /\ cycleOps' = base \cup {entry.id}
                /\ siblings' = sib
                /\ lateOps' = lateOps \ {entry.id}
                /\ atTick' = at

\* the Metronome emits 'tick' only while it is not paused
Tick(h) ==
    /\ ~paused
    /\ tick[h].pc = "idle"
    /\ \A g \in Handlers : g < h => tick[g].pc # "idle"
    /\ Continue(h, 1, PausedOnEntry, {}, {}, QueuedIds)
    /\ UNCHANGED <<m_db, closer, submitted, opInfo, handle, handleErr,
                   doneCount, txlog>>
    /\ UNCHANGED <<poolVars, auxVars>>

\* what a handler step leaves alone when it only moves to its next await
StaysInEntry ==
    UNCHANGED <<m_transactionQueue, m_allQueue, m_runQueue, paused, m_db, closer,
                submitted, opInfo, handle, handleErr, execCount, doneCount,
                cycleOps, lateOps, atTick>>

\* const connection = await this.connection(); then beginTransaction is called
AwaitConnection(h) ==
    /\ tick[h].pc = "connection"
    /\ tick' = [tick EXCEPT ![h].pc = "begin"]
    /\ StaysInEntry
    /\ UNCHANGED <<txlog, siblings>>
    /\ UNCHANGED <<poolVars, auxVars>>

\* await beginTransaction(connection)
AwaitBeginTransaction(h) ==
    /\ tick[h].pc = "begin"
    /\ \E ok \in BOOLEAN :
        LET entry == tick[h].entry IN
        /\ txlog' = [txlog EXCEPT ![entry.id] = Append(@, Call("BEGIN", 0, ok))]
        /\ IF ok
              THEN /\ tick' = [tick EXCEPT ![h].pc =
                                   IF Len(entry.queries) > 0 THEN "query" ELSE "commit",
                                             ![h].i = IF Len(entry.queries) > 0 THEN 1 ELSE 0]
                   /\ UNCHANGED siblings
              ELSE /\ tick' = [tick EXCEPT ![h].pc = "rollback",
                                             ![h].e = Error(entry.id, "BEGIN", 0)]
                   /\ siblings' = siblings \cup QueuedIds
    /\ StaysInEntry
    /\ UNCHANGED <<poolVars, auxVars>>

\* for (const q of queuedTransaction.queries) await query(connection, ...)
AwaitQuery(h) ==
    /\ tick[h].pc = "query"
    /\ \E ok \in BOOLEAN :
        LET entry == tick[h].entry
            i == tick[h].i
        IN
        /\ txlog' = [txlog EXCEPT ![entry.id] = Append(@, Call("query", i, ok))]
        /\ IF ok
              THEN /\ tick' = [tick EXCEPT ![h].pc =
                                   IF i < Len(entry.queries) THEN "query" ELSE "commit",
                                             ![h].i = IF i < Len(entry.queries) THEN i + 1 ELSE 0]
                   /\ UNCHANGED siblings
              ELSE /\ tick' = [tick EXCEPT ![h].pc = "rollback",
                                             ![h].e = Error(entry.id, "query", i)]
                   /\ siblings' = siblings \cup QueuedIds
    /\ StaysInEntry
    /\ UNCHANGED <<poolVars, auxVars>>

\* await commit(connection); queuedTransaction.callback(undefined, undefined)
AwaitCommit(h) ==
    /\ tick[h].pc = "commit"
    /\ \E ok \in BOOLEAN :
        LET entry == tick[h].entry IN
        /\ txlog' = [txlog EXCEPT ![entry.id] = Append(@, Call("COMMIT", 0, ok))]
        /\ IF ok
              THEN /\ Callback(entry, NoError)
                   /\ Continue(h, tick[h].phase, paused, cycleOps, siblings, atTick)
              ELSE /\ tick' = [tick EXCEPT ![h].pc = "rollback",
                                             ![h].e = Error(entry.id, "COMMIT", 0)]
                   /\ siblings' = siblings \cup QueuedIds
                   /\ UNCHANGED <<m_transactionQueue, m_allQueue, m_runQueue, paused,
                                  handle, handleErr, execCount, doneCount, cycleOps,
                                  lateOps, atTick>>
    /\ UNCHANGED <<m_db, closer, submitted, opInfo>>
    /\ UNCHANGED <<poolVars, auxVars>>

\* catch (e) { await rollback(connection); queuedTransaction.callback(e, ...) }
\* A rejected rollback() is thrown out of the catch block: the promise of the
\* async handler rejects and nothing after the await runs.
AwaitRollback(h) ==
    /\ tick[h].pc = "rollback"
    /\ \E ok \in BOOLEAN :
        LET entry == tick[h].entry IN
        /\ txlog' = [txlog EXCEPT ![entry.id] = Append(@, Call("ROLLBACK", 0, ok))]
        /\ IF ok
              THEN /\ Callback(entry, tick[h].e)
                   /\ Continue(h, tick[h].phase, paused, cycleOps, siblings, atTick)
              ELSE /\ tick' = [tick EXCEPT ![h].pc = "rejected",
                                             ![h].e = Error(entry.id, "ROLLBACK", 0)]
                   /\ UNCHANGED <<m_transactionQueue, m_allQueue, m_runQueue, paused,
                                  handle, handleErr, execCount, doneCount, cycleOps,
                                  siblings, lateOps, atTick>>
    /\ UNCHANGED <<m_db, closer, submitted, opInfo>>
    /\ UNCHANGED <<poolVars, auxVars>>

\* try { result = await this.all(...); queue.callback(undefined, result) }
\* catch (e) { queue.callback(e, undefined) }
AwaitAll(h) ==
    /\ tick[h].pc = "all"
    /\ \E ok \in BOOLEAN :
        LET entry == tick[h].entry IN
        /\ Callback(entry, IF ok THEN NoError ELSE Error(entry.id, "all", 0))
        /\ Continue(h, tick[h].phase, paused, cycleOps,
                    IF ok THEN siblings ELSE siblings \cup QueuedIds, atTick)
    /\ UNCHANGED <<m_db, closer, submitted, opInfo, txlog>>
    /\ UNCHANGED <<poolVars, auxVars>>

\* the same for the write queue, through this.run
AwaitRun(h) ==
    /\ tick[h].pc = "run"
    /\ \E ok \in BOOLEAN :
        LET entry == tick[h].entry IN
        /\ Callback(entry, IF ok THEN NoError ELSE Error(entry.id, "run", 0))
        /\ Continue(h, tick[h].phase, paused, cycleOps,
                    IF ok THEN siblings ELSE siblings \cup QueuedIds, atTick)
    /\ UNCHANGED <<m_db, closer, submitted, opInfo, txlog>>
    /\ UNCHANGED <<poolVars, auxVars>>

\* ------------------------------------------------------------------ close
\* variant: the read queue is left out of the condition
QueuesDrained_NoReads ==
    ~ (Len(m_transactionQueue) # 0 \/ Len(m_runQueue) # 0)

\* the condition of the while loop of close(), negated
QueuesDrained ==
    ~ (Len(m_transactionQueue) # 0 \/ Len(m_runQueue) # 0 \/ Len(m_allQueue) # 0)

\* one evaluation of the loop: sleep again, or call this.m_db.close
ClosePoll ==
    IF QueuesDrained
       THEN closer' = "closing" /\ m_db' = "closing"
       ELSE closer' = "sleeping" /\ UNCHANGED m_db

CloseFrame ==
    /\ UNCHANGED <<m_transactionQueue, m_allQueue, m_runQueue, paused, tick,
                   submitted, opInfo, handle, handleErr, execCount, doneCount,
                   cycleOps, txlog, siblings, lateOps, atTick>>
    /\ UNCHANGED <<poolVars, auxVars>>

\* SQLite.close: the executor runs up to its first await
Close ==
    /\ closer = "none"
    /\ ClosePoll
    /\ CloseFrame

\* await sleep() returns after 100 ms
CloseWake ==
    /\ closer = "sleeping"
    /\ ClosePoll
    /\ CloseFrame

\* the callback of this.m_db.close
CloseCallback ==
    /\ closer = "closing"
    /\ \E ok \in BOOLEAN :
        IF ok THEN closer' = "resolved" /\ m_db' = "closed"
              ELSE closer' = "rejected" /\ m_db' = "open"
    /\ CloseFrame

\* ------------------------------------------------------------------- Spec
Submit ==
    \/ \E q \in QueryTexts : Query(q)
    \/ \E qs \in TxInputs : Transaction(qs)

Drain ==
    \E h \in Handlers :
        \/ Tick(h)
        \/ AwaitConnection(h)
        \/ AwaitBeginTransaction(h)
        \/ AwaitQuery(h)
        \/ AwaitCommit(h)
        \/ AwaitRollback(h)
        \/ AwaitAll(h)
        \/ AwaitRun(h)

Closing == Close \/ CloseWake \/ CloseCallback

Next == Submit \/ Drain \/ Closing

Spec == Init /\ [][Next]_vars

\* the event loop runs every enabled continuation, timer and tick
FairSpec == Spec /\ WF_vars(Drain) /\ WF_vars(Closing)

\* ------------------------------------------- pooled transaction() and query()
\* MySQL.transaction / Postgres.transaction: same control flow in both
PoolFrame == UNCHANGED sqliteVars /\ UNCHANGED backend /\ UNCHANGED auxVars

\* the call: const connection = await this.connection() is issued
PoolTransaction(t, qs) ==
    /\ ptx[t].pc = "none"
    /\ ptx' = [ptx EXCEPT ![t].pc = "connect", ![t].queries = qs, ![t].kind = "tx"]
    /\ UNCHANGED <<pool, relCount>>
    /\ PoolFrame

\* getConnection / m_pool.connect: hands out a free connection, or fails;
\* a rejection here leaves transaction() before its try block.  On success
\* BEGIN is issued on the connection.
PoolConnect(t) ==
    /\ ptx[t].pc = "connect"
    /\ \/ \E c \in Conns :
            /\ pool[c] = 0
            /\ pool' = [pool EXCEPT ![c] = t]
            /\ ptx' = [ptx EXCEPT ![t].pc = "begin", ![t].conn = c, ![t].on = c]
       \/ /\ ptx' = [ptx EXCEPT ![t].pc = "rejected",
                                 ![t].e = Error(t, "connect", 0)]
          /\ UNCHANGED pool
    /\ UNCHANGED relCount
    /\ PoolFrame

\* variant: release placed after the try/catch instead of in finally, so an
\* error thrown by the catch block skips it
FinallyRelease_SkipOnThrow(t, path) ==
    IF path = "rollback failed"
       THEN UNCHANGED <<pool, relCount>>
       ELSE /\ pool' = [pool EXCEPT ![ptx[t].conn] = 0]
            /\ relCount' = [relCount EXCEPT ![t] = @ + 1]

\* finally { connection.release() }
FinallyRelease(t, path) ==
    /\ pool' = [pool EXCEPT ![ptx[t].conn] = 0]
    /\ relCount' = [relCount EXCEPT ![t] = @ + 1]

\* variant: the statements go through this.query(q.query, q.values) without
\* the client, i.e. on another connection of the pool
StmtConn_NotPinned(t) == CHOOSE c \in Conns : c # ptx[t].conn

\* the connection a statement of the transaction is sent on:
\* query(connection, ...) / this.query(q.query, q.values, client)
StmtConn(t) == ptx[t].conn

\* the call a transaction issues after BEGIN or statement i succeeded
AfterStatement(t, i) ==
    IF i < Len(ptx[t].queries)
       THEN [ptx EXCEPT ![t].pc = "query", ![t].i = i + 1, ![t].on = StmtConn(t)]
       ELSE [ptx EXCEPT ![t].pc = "commit", ![t].i = 0, ![t].on = ptx[t].conn]

\* await beginTransaction(connection) / await client.query('BEGIN')
PoolBegin(t) ==
    /\ ptx[t].pc = "begin"
    /\ \E ok \in BOOLEAN :
        IF ok
           THEN ptx' = AfterStatement(t, 0)
           ELSE ptx' = [ptx EXCEPT ![t].pc = "rollback", ![t].on = ptx[t].conn,
                                   ![t].e = Error(t, "BEGIN", 0)]
    /\ UNCHANGED <<pool, relCount>>
    /\ PoolFrame

\* for (const q of queries) await query(connection, q.query, q.values)
PoolQuery(t) ==
    /\ ptx[t].pc = "query"
    /\ \E ok \in BOOLEAN :
        IF ok
           THEN ptx' = AfterStatement(t, ptx[t].i)
           ELSE ptx' = [ptx EXCEPT ![t].pc = "rollback", ![t].on = ptx[t].conn,
                                   ![t].e = Error(t, "query", ptx[t].i)]
    /\ UNCHANGED <<pool, relCount>>
    /\ PoolFrame

\* await commit(connection); on success the try block ends and finally runs
PoolCommit(t) ==
    /\ ptx[t].pc = "commit"
    /\ \E ok \in BOOLEAN :
        IF ok
           THEN /\ FinallyRelease(t, "committed")
                /\ ptx' = [ptx EXCEPT ![t].pc = "resolved", ![t].on = 0]
           ELSE /\ ptx' = [ptx EXCEPT ![t].pc = "rollback", ![t].on = ptx[t].conn,
                                      ![t].e = Error(t, "COMMIT", 0)]
                /\ UNCHANGED <<pool, relCount>>
    /\ PoolFrame

\* catch (e) { await rollback(connection); throw e } finally { release }
\* whichever error leaves the catch block, finally runs before it propagates
PoolRollback(t) ==
    /\ ptx[t].pc = "rollback"
    /\ \E ok \in BOOLEAN :
        IF ok
           THEN /\ FinallyRelease(t, "rolled back")
                /\ ptx' = [ptx EXCEPT ![t].pc = "rejected", ![t].on = 0]
           ELSE /\ FinallyRelease(t, "rollback failed")
                /\ ptx' = [ptx EXCEPT ![t].pc = "rejected", ![t].on = 0,
                                      ![t].e = Error(t, "ROLLBACK", 0)]
    /\ PoolFrame

\* MySQL.query / Postgres.query, called without an open client
PoolQueryCall(t, q) ==
    /\ ptx[t].pc = "none"
    /\ ptx' = [ptx EXCEPT ![t].pc = "qconnect", ![t].queries = <<q>>, ![t].kind = "query"]
    /\ UNCHANGED <<pool, relCount>>
    /\ PoolFrame

\* Postgres: const client = openClient || await this.m_pool.connect()
\* MySQL: this.m_db.query takes a connection of the pool itself
PoolQueryConnect(t) ==
    /\ ptx[t].pc = "qconnect"
    /\ \/ \E c \in Conns :
            /\ pool[c] = 0
            /\ pool' = [pool EXCEPT ![c] = t]
            /\ ptx' = [ptx EXCEPT ![t].pc = "qexec", ![t].conn = c, ![t].on = c]
       \/ /\ ptx' = [ptx EXCEPT ![t].pc = "rejected",
                                 ![t].e = Error(t, "connect", 0)]
          /\ UNCHANGED pool
    /\ UNCHANGED relCount
    /\ PoolFrame

\* whether the connection of a finished statement goes back to the pool.
\* MySQL: Pool.query releases it before the callback, on both outcomes.
\* Postgres: `if (!openClient) await client.release()` follows the awaited
\* client.query and is skipped when that throws.
QueryReleases(ok) == backend = "mysql" \/ ok

\* Postgres: const res = await client.query(query, values); release; return
\* MySQL: the callback of this.m_db.query
PoolQueryExec(t) ==
    /\ ptx[t].pc = "qexec"
    /\ \E ok \in BOOLEAN :
        /\ ptx' = [ptx EXCEPT ![t].pc = IF ok THEN "resolved" ELSE "rejected",
                              ![t].on = 0,
                              ![t].e = IF ok THEN NoError ELSE Error(t, "query", 1)]
        /\ IF QueryReleases(ok)
              THEN /\ pool' = [pool EXCEPT ![ptx[t].conn] = 0]
                   /\ relCount' = [relCount EXCEPT ![t] = @ + 1]
              ELSE UNCHANGED <<pool, relCount>>
    /\ PoolFrame

PoolInit ==
    /\ SQLiteInit
    /\ backend \in {"mysql", "postgres"}
    /\ PoolInitVars
    /\ AuxIdle

PoolNext ==
    \E t \in Callers :
        \/ \E qs \in TxInputs : PoolTransaction(t, qs)
        \/ PoolConnect(t)
        \/ PoolBegin(t)
        \/ PoolQuery(t)
        \/ PoolCommit(t)
        \/ PoolRollback(t)
        \/ \E q \in QueryTexts : PoolQueryCall(t, q)
        \/ PoolQueryConnect(t)
        \/ PoolQueryExec(t)

PoolSpec == PoolInit /\ [][PoolNext]_vars

\* ------------------------------------------------------------ createTable()
MaxFields == 2       \* columns handed to createTable()

\* ITableColumn.unique is optional
UniqueFlags == {"true", "false", "undefined"}

\* the column lists handed to createTable(); a column is named by its position
FieldInputs ==
    UNION {{[i \in 1..n |-> [name |-> i, unique |-> f[i]]] : f \in [1..n -> UniqueFlags]}
           : n \in 0..MaxFields}

\* the calls with which db.transaction() can reject
TxFailures == {"connect", "BEGIN", "query", "COMMIT", "ROLLBACK"}

TableStmt == [kind |-> "table", col |-> 0]
IndexStmt(c) == [kind |-> "index", col |-> c]

\* variant: elem => elem.unique !== false
IsUnique_NotFalse(elem) == elem.unique # "false"

\* elem => elem.unique === true
IsUnique(elem) == elem.unique = "true"

\* prepareCreateTable: the table statement and one index statement per
\* unique column, in column order; it validates nothing and never throws
prepareCreateTable(fields) ==
    LET l_unique == SelectSeq(fields, IsUnique)
    IN  [table |-> TableStmt,
         indexes |-> [i \in 1..Len(l_unique) |-> IndexStmt(l_unique[i].name)]]

\* variant: the index batch is submitted unconditionally
HasIndexes_Always(preparedTable) == TRUE

\* preparedTable.indexes.length !== 0
HasIndexes(preparedTable) == Len(preparedTable.indexes) # 0

\* a transaction handed to db.transaction() and how it settled
Batch(stmts) == [stmts |-> stmts, result |-> "pending"]

\* EventEmitter.emit('error', e) throws e when no 'error' listener is
\* registered, otherwise it calls the listeners and returns
EmitThrows(listeners) == listeners = 0

\* the end of the wrapper: the try block completed (e = NoError), or
\* catch (error) { this.emit('error', error) } ran
Wrapper(c, e) ==
    IF e = NoError
       THEN [c EXCEPT !.pc = "done", !.promise = "resolved"]
       ELSE IF EmitThrows(c.listeners)
               THEN [c EXCEPT !.pc = "done", !.promise = "rejected", !.e = e]
               ELSE [c EXCEPT !.pc = "done", !.promise = "resolved",
                              !.emitted = Append(@, e)]

\* variant: a failed transaction also undoes what earlier transactions committed
TransactionEffect_UndoesAll(schema, stmts, e) ==
    IF e = NoError THEN {schema \cup {stmts[i] : i \in 1..Len(stmts)}} ELSE {{}}

\* What db.transaction(stmts) can leave in the database, given what the
\* earlier transactions committed: after COMMIT all its statements; after a
\* failure followed by ROLLBACK nothing of its own; when ROLLBACK itself
\* fails the statements executed so far stay open on the connection and may
\* or may not persist. No backend touches what was committed before BEGIN.
TransactionEffect(schema, stmts, e) ==
    IF e = NoError
       THEN {schema \cup {stmts[i] : i \in 1..Len(stmts)}}
       ELSE IF e.call = "ROLLBACK"
               THEN {schema \cup {stmts[i] : i \in 1..k} : k \in 0..Len(stmts)}
               ELSE {schema}

CtFrame == UNCHANGED sqliteVars /\ UNCHANGED poolVars /\ UNCHANGED fn

\* db.createTable(name, fields, ...): the statements are prepared and the
\* table transaction is submitted and awaited
CreateTable(fields, listeners) ==
    /\ ct.pc = "none"
    /\ LET preparedTable == prepareCreateTable(fields)
       IN  ct' = [pc |-> "table", fields |-> fields, listeners |-> listeners,
                  preparedTable |-> preparedTable,
                  batches |-> <<Batch(<<preparedTable.table>>)>>,
                  promise |-> "pending", e |-> NoError, emitted |-> << >>,
                  schema |-> {}]
    /\ CtFrame

\* await db.transaction([{ query: preparedTable.table }]) settles
TableTransaction ==
    /\ ct.pc = "table"
    /\ \/ \E schema \in TransactionEffect(ct.schema, ct.batches[1].stmts, NoError) :
            LET c == [ct EXCEPT !.batches[1].result = "ok", !.schema = schema]
            IN  IF HasIndexes(ct.preparedTable)
                   THEN ct' = [c EXCEPT !.pc = "index",
                                        !.batches = Append(@, Batch(ct.preparedTable.indexes))]
                   ELSE ct' = Wrapper(c, NoError)
       \/ \E call \in TxFailures :
            \E schema \in TransactionEffect(ct.schema, ct.batches[1].stmts, Error(1, call, 0)) :
                ct' = Wrapper([ct EXCEPT !.batches[1].result = "failed", !.schema = schema],
                              Error(1, call, 0))
    /\ CtFrame

\* await db.transaction(stmts) settles
IndexTransaction ==
    /\ ct.pc = "index"
    /\ \/ \E schema \in TransactionEffect(ct.schema, ct.batches[2].stmts, NoError) :
            ct' = Wrapper([ct EXCEPT !.batches[2].result = "ok", !.schema = schema], NoError)
       \/ \E call \in TxFailures :
            \E schema \in TransactionEffect(ct.schema, ct.batches[2].stmts, Error(2, call, 0)) :
                ct' = Wrapper([ct EXCEPT !.batches[2].result = "failed", !.schema = schema],
                              Error(2, call, 0))
    /\ CtFrame

CtNext ==
    \/ \E fields \in FieldInputs, listeners \in 0..1 : CreateTable(fields, listeners)
    \/ TableTransaction
    \/ IndexTransaction

CtSpec == Init /\ [][CtNext]_vars

\* --------------------------------------------------------------- SQLite.run
MaxRowId == 2        \* largest lastID / changes reported by the driver

QPragma == <<"P", "R", "A", "G", "M", "A">>

\* the statement texts handed to run()
RunQueries ==
    {QInsert, QSelect, QPragma,
     <<"I", "N", "S", "E", "R", "T">>,
     <<"u", "p", "d", "a", "t", "e">>,
     <<"U", "p", "D", "a", "t", "e">>,
     <<"D", "E", "L", "E", "T", "E">>,
     <<" ", "i", "n", "s", "e", "r", "t">>,
     <<"i", "n", "s">>}

InsertPrefix == <<"i", "n", "s", "e", "r", "t">>
UpdatePrefix == <<"u", "p", "d", "a", "t", "e">>
DeletePrefix == <<"d", "e", "l", "e", "t", "e">>

\* variant: the prefix is compared without toLowerCase()
RunCount_CaseSensitive(query, lastID, changes) ==
    IF StartsWith(query, InsertPrefix)
       THEN lastID
       ELSE IF StartsWith(query, UpdatePrefix) \/ StartsWith(query, DeletePrefix)
               THEN changes
               ELSE 0

\* const count = (query.toLowerCase().startsWith('insert')) ? this.lastID
\*     : (query.toLowerCase().startsWith('update') ||
\*        query.toLowerCase().startsWith('delete')) ? this.changes : 0
RunCount(query, lastID, changes) ==
    IF StartsWith(ToLowerCase(query), InsertPrefix)
       THEN lastID
       ELSE IF StartsWith(ToLowerCase(query), UpdatePrefix)
               \/ StartsWith(ToLowerCase(query), DeletePrefix)
               THEN changes
               ELSE 0

\* an IQueryResult: [count, rows]
QueryResult(count, rows) == [count |-> count, rows |-> rows]
NoResult == QueryResult(-1, << >>)

\* resolve([count, []])
RunResult(query, lastID, changes) == QueryResult(RunCount(query, lastID, changes), << >>)

\* resolve([rows.length, rows])
AllResult(rows) == QueryResult(Len(rows), rows)

FnFrame == UNCHANGED sqliteVars /\ UNCHANGED poolVars /\ UNCHANGED ct

\* the state in which one of the calls is about to be made
FnInit(calls) ==
    /\ SQLiteInit
    /\ backend = "mysql"
    /\ PoolInitVars
    /\ ct = IdleCt
    /\ fn \in calls

RunCalls ==
    {[name |-> "run", pc |-> "called", query |-> q, lastID |-> l, changes |-> c,
      result |-> NoResult] : q \in RunQueries, l \in 0..MaxRowId, c \in 0..MaxRowId}

\* the callback of this.m_db.run(query, values, function (error) {...})
RunCallback ==
    /\ fn.name = "run"
    /\ fn.pc = "called"
    /\ \E error \in BOOLEAN :
        IF error
           THEN fn' = [fn EXCEPT !.pc = "rejected"]
           ELSE fn' = [fn EXCEPT !.pc = "resolved",
                                 !.result = RunResult(fn.query, fn.lastID, fn.changes)]
    /\ FnFrame

RunNext == RunCallback

RunSpec == FnInit(RunCalls) /\ [][RunNext]_vars

\* --------------------------------------------------------- SQLite.getPragma
MaxRows == 2         \* rows the database yields for a PRAGMA statement

\* a value that is undefined in JavaScript; the settings are 0 and 1
Undefined == -1
Truthy(v) == v \notin {0, Undefined}

PragmaOptions == {<<"f", "k">>, <<"F", "K">>, <<"x">>}

\* the rows the database yields for the statement: one column each
PragmaRows == {[col |-> <<"f", "k">>, val |-> 0], [col |-> <<"f", "k">>, val |-> 1],
               [col |-> <<"x">>, val |-> 1]}
RowInputs == UNION {[1..n -> PragmaRows] : n \in 0..MaxRows}

\* elem[option]
Field(elem, option) == IF elem.col = option THEN elem.val ELSE Undefined

\* 'PRAGMA ' + option
PragmaText(option) == QPragma \o <<" ">> \o option

\* variant: the prefix is compared without toLowerCase()
ClassOfQuery_CaseSensitive(query) ==
    IF StartsWith(query, SelectPrefix) THEN "read" ELSE "write"

\* SQLite.query: the queue a statement is registered in
ClassOfQuery(query) == IF IsSelect(query) THEN "read" ELSE "write"

Out(kind, vals) == [kind |-> kind, vals |-> vals]
NoOut == Out("none", << >>)

\* getPragma after `const [count, rows] = await this.query(query)`;
\* rows[0][option] with rows = [] throws a TypeError
PragmaReturn(count, rows, option) ==
    IF count = 1
       THEN IF Len(rows) = 0
               THEN Out("TypeError", << >>)
               ELSE Out("value", <<Field(rows[1], option)>>)
       ELSE IF Len(rows) = 0
               THEN Out("TypeError", << >>)
               ELSE IF Truthy(Field(rows[1], option))
                       THEN Out("list", [i \in 1..Len(rows) |-> Field(rows[i], option)])
                       ELSE Out("rows", [i \in 1..Len(rows) |-> rows[i].val])

PragmaCalls ==
    {[name |-> "getPragma", pc |-> "called", arg |-> o, option |-> o, dbRows |-> r,
      query |-> << >>, class |-> "none", result |-> NoResult, out |-> NoOut]
        : o \in PragmaOptions, r \in RowInputs}

\* option = option.toLowerCase(); query = 'PRAGMA ' + option; this.query(query)
\* registers the statement in the read or in the write queue
GetPragmaQuery ==
    /\ fn.name = "getPragma"
    /\ fn.pc = "called"
    /\ LET option == ToLowerCase(fn.option)
           query == PragmaText(option)
       IN  fn' = [fn EXCEPT !.pc = "queued", !.option = option, !.query = query,
                            !.class = ClassOfQuery(query)]
    /\ FnFrame

\* the tick handler executes the statement with all() or with run() and
\* passes the result, or the driver's error, to the callback
GetPragmaExecute ==
    /\ fn.name = "getPragma"
    /\ fn.pc = "queued"
    /\ \/ fn' = [fn EXCEPT !.pc = "done", !.out = Out("error", << >>)]
       \/ IF fn.class = "read"
             THEN fn' = [fn EXCEPT !.pc = "returned", !.result = AllResult(fn.dbRows)]
             ELSE \E lastID \in 0..MaxRowId, changes \in 0..MaxRowId :
                    fn' = [fn EXCEPT !.pc = "returned",
                                     !.result = RunResult(fn.query, lastID, changes)]
    /\ FnFrame

\* the rest of getPragma
GetPragmaReturn ==
    /\ fn.name = "getPragma"
    /\ fn.pc = "returned"
    /\ fn' = [fn EXCEPT !.pc = "done",
                        !.out = PragmaReturn(fn.result.count, fn.result.rows, fn.option)]
    /\ FnFrame

PragmaNext == GetPragmaQuery \/ GetPragmaExecute \/ GetPragmaReturn

PragmaSpec == FnInit(PragmaCalls) /\ [][PragmaNext]_vars


\* ---------------------------------------------------------- SQLite.setPragma
\* const pragmaFunctionCalls = [...]
pragmaFunctionCalls == <<
    <<"q", "u", "i", "c", "k", "_", "c", "h", "e", "c", "k">>,
    <<"i", "n", "t", "e", "g", "r", "i", "t", "y", "_", "c", "h", "e", "c", "k">>,
    <<"i", "n", "c", "r", "e", "m", "e", "n", "t", "a", "l", "_", "v", "a", "c", "u", "u", "m">>,
    <<"f", "o", "r", "e", "i", "g", "n", "_", "k", "e", "y", "_", "c", "h", "e", "c", "k">>,
    <<"f", "o", "r", "e", "i", "g", "n", "_", "k", "e", "y", "_", "l", "i", "s", "t">>,
    <<"i", "n", "d", "e", "x", "_", "i", "n", "f", "o">>,
    <<"i", "n", "d", "e", "x", "_", "l", "i", "s", "t">>,
    <<"i", "n", "d", "e", "x", "_", "x", "i", "n", "f", "o">>,
    <<"t", "a", "b", "l", "e", "_", "i", "n", "f", "o">>,
    <<"t", "a", "b", "l", "e", "_", "x", "i", "n", "f", "o">>,
    <<"o", "p", "t", "i", "m", "i", "z", "e">> >>

\* the setting names handed to setPragma
SetPragmaNames == {
    <<"q", "u", "i", "c", "k", "_", "c", "h", "e", "c", "k">>,
    <<"i", "n", "t", "e", "g", "r", "i", "t", "y", "_", "c", "h", "e", "c", "k">>,
    <<"i", "n", "c", "r", "e", "m", "e", "n", "t", "a", "l", "_", "v", "a", "c", "u", "u", "m">>,
    <<"f", "o", "r", "e", "i", "g", "n", "_", "k", "e", "y", "_", "c", "h", "e", "c", "k">>,
    <<"f", "o", "r", "e", "i", "g", "n", "_", "k", "e", "y", "_", "l", "i", "s", "t">>,
    <<"i", "n", "d", "e", "x", "_", "i", "n", "f", "o">>,
    <<"i", "n", "d", "e", "x", "_", "l", "i", "s", "t">>,
    <<"i", "n", "d", "e", "x", "_", "x", "i", "n", "f", "o">>,
    <<"t", "a", "b", "l", "e", "_", "i", "n", "f", "o">>,
    <<"t", "a", "b", "l", "e", "_", "x", "i", "n", "f", "o">>,
    <<"o", "p", "t", "i", "m", "i", "z", "e">>,
    <<"Q", "U", "I", "C", "K", "_", "C", "H", "E", "C", "K">>,
    <<"I", "n", "t", "e", "g", "r", "i", "t", "y", "_", "c", "h", "e", "c", "k">>,
    <<"I", "n", "c", "r", "e", "m", "e", "n", "t", "a", "l", "_", "v", "a", "c", "u", "u", "m">>,
    <<"F", "o", "r", "e", "i", "g", "n", "_", "k", "e", "y", "_", "c", "h", "e", "c", "k">>,
    <<"F", "o", "r", "e", "i", "g", "n", "_", "k", "e", "y", "_", "l", "i", "s", "t">>,
    <<"I", "N", "D", "E", "X", "_", "I", "N", "F", "O">>,
    <<"I", "N", "D", "E", "X", "_", "L", "I", "S", "T">>,
    <<"I", "N", "D", "E", "X", "_", "X", "I", "N", "F", "O">>,
    <<"T", "A", "B", "L", "E", "_", "I", "N", "F", "O">>,
    <<"T", "A", "B", "L", "E", "_", "X", "I", "N", "F", "O">>,
    <<"O", "P", "T", "I", "M", "I", "Z", "E">>,
    <<"f", "o", "r", "e", "i", "g", "n", "_", "k", "e", "y", "s">>,
    <<"o", "p", "t", "i", "m", "i", "z", "e", "r">>,
    <<"t", "a", "b", "l", "e", "_", "i", "n", "f">>,
    <<"j", "o", "u", "r", "n", "a", "l", "_", "m", "o", "d", "e">>,
    <<"F", "o", "r", "e", "i", "g", "n", "_", "K", "e", "y", "s">> }

\* the values handed to setPragma, as the text string concatenation gives them
SetPragmaValues == {<<"t", "r", "u", "e">>, <<"1">>, <<"o", "f", "f">>}

\* pragmaFunctionCalls.indexOf(option) !== -1
IsFunctionCall(option) ==
    \E i \in 1..Len(pragmaFunctionCalls) : pragmaFunctionCalls[i] = option

\* variant: the name is used as given
SetPragmaOption_AsGiven(option) == option

\* option = option.toLowerCase()
SetPragmaOption(option) == ToLowerCase(option)

\* let query = 'PRAGMA '; query += option + '(' + value + ')' or
\* query += option + ' = ' + value
SetPragmaText(name, value) ==
    LET option == SetPragmaOption(name)
    IN  IF IsFunctionCall(option)
           THEN PragmaText(option) \o <<"(">> \o value \o <<")">>
           ELSE PragmaText(option) \o <<" ", "=", " ">> \o value

SetPragmaCalls ==
    {[name |-> "setPragma", pc |-> "called", option |-> o, value |-> v,
      query |-> << >>, class |-> "none"] : o \in SetPragmaNames, v \in SetPragmaValues}

\* setPragma up to `await this.query(query)`: the statement is built and
\* registered in the read or in the write queue
SetPragma ==
    /\ fn.name = "setPragma"
    /\ fn.pc = "called"
    /\ LET query == SetPragmaText(fn.option, fn.value)
       IN  fn' = [fn EXCEPT !.pc = "submitted", !.query = query,
                            !.class = ClassOfQuery(query)]
    /\ FnFrame

SetPragmaNext == SetPragma

SetPragmaSpec == FnInit(SetPragmaCalls) /\ [][SetPragmaNext]_vars


\* ------------------------------------------------------- prepareCreateTable
\* SQL text is a sequence of pieces: literal parts of a format string, and
\* the texts substituted for its %s
Lit(s) == [lit |-> s, text |-> << >>]
Txt(cs) == [lit |-> "", text |-> cs]

\* String.prototype.toUpperCase
ToUpperChar(c) ==
    IF \E i \in 1..Len(LowerCaseLetters) : LowerCaseLetters[i] = c
       THEN UpperCaseLetters[CHOOSE i \in 1..Len(LowerCaseLetters) : LowerCaseLetters[i] = c]
       ELSE c

ToUpperCase(s) == [i \in 1..Len(s) |-> ToUpperChar(s[i])]

\* Array.prototype.join on pieces
RECURSIVE Join(_, _)
Join(parts, sep) ==
    IF Len(parts) = 0
       THEN << >>
       ELSE IF Len(parts) = 1
               THEN parts[1]
               ELSE parts[1] \o <<sep>> \o Join(Tail(parts), sep)

\* an optional string: undefined, or a text
Absent == [defined |-> FALSE, text |-> << >>]
Given(cs) == [defined |-> TRUE, text |-> cs]

\* x || '' for an optional string x, as pieces
OrEmpty(x) == IF x.defined /\ x.text # << >> THEN <<Txt(x.text)>> ELSE << >>

\* IForeignKey; an action that is undefined is the empty text
NoForeign == [defined |-> FALSE, table |-> << >>, column |-> << >>,
              update |-> << >>, delete |-> << >>]
ForeignKey(update, delete) == [defined |-> TRUE, table |-> <<"p">>, column |-> <<"i", "d">>,
                               update |-> update, delete |-> delete]
Cascade == <<"c", "a", "s", "c", "a", "d", "e">>
SetNull == <<"S", "e", "t", " ", "N", "u", "l", "l">>

\* the kinds of column handed to prepareCreateTable
ColumnKinds ==
    {[unique |-> "undefined", foreign |-> NoForeign],
     [unique |-> "true", foreign |-> NoForeign],
     [unique |-> "false", foreign |-> NoForeign],
     [unique |-> "undefined", foreign |-> ForeignKey(<< >>, << >>)],
     [unique |-> "undefined", foreign |-> ForeignKey(Cascade, << >>)],
     [unique |-> "false", foreign |-> ForeignKey(<< >>, SetNull)],
     [unique |-> "true", foreign |-> ForeignKey(SetNull, Cascade)]}

ColumnNames == <<<<"a">>, <<"b">>, <<"c">>, <<"d">>>>

\* column lists: the i-th column is called ColumnNames[i]
PrepFields ==
    UNION {{[i \in 1..n |-> [name |-> ColumnNames[i], unique |-> k[i].unique,
                             foreign |-> k[i].foreign]] : k \in [1..n -> ColumnKinds]}
           : n \in 0..MaxFields}

\* primary-key lists: empty, one column, two columns in reverse column
\* order, a name that is no column
PrepPrimaryKeys == {<< >>, <<<<"a">>>>, <<<<"b">>, <<"a">>>>, <<<<"z">>>>}

\* the tableOptions argument
PrepOptionArgs == {Absent, Given(<<"W", "I", "T", "H", "O", "U", "T", " ", "R", "O", "W", "I", "D">>)}

\* private m_tableOptions = ... of MySQL, Postgres and SQLite
DefaultTableOptions(db) ==
    IF db = "mysql"
       THEN Given(<<"E", "N", "G", "I", "N", "E", "=", "I", "n", "n", "o", "D", "B", " ", "P", "A", "C", "K", "_", "K", "E", "Y", "S", "=", "1", " ", "R", "O", "W", "_", "F", "O", "R", "M", "A", "T", "=", "C", "O", "M", "P", "R", "E", "S", "S", "E", "D">>)
       ELSE Absent

\* the values handed to the tableOptions setter
SetterValues == {Absent, Given(<<"E", "N", "G", "I", "N", "E", "=", "M", "y", "I", "S", "A", "M">>)}

\* format('%s %s %s %s', col.name, col.type, NOT NULL | NULL, DEFAULT ...)
\* for a column of type int that is not nullable and has no default
FieldSql(col) ==
    <<Txt(col.name), Lit(" "), Txt(<<"i", "n", "t">>), Lit(" "), Lit("NOT NULL"), Lit(" ")>>

\* format('CREATE UNIQUE INDEX IF NOT EXISTS %s_unique_%s ON %s (%s);', ...)
UniqueSql(name, col) ==
    <<Lit("CREATE UNIQUE INDEX IF NOT EXISTS "), Txt(name), Lit("_unique_"), Txt(col.name),
      Lit(" ON "), Txt(name), Lit(" ("), Txt(col.name), Lit(");")>>

\* const l_unique = fields.filter(elem => elem.unique === true).map(...)
UniqueIndexes(name, fields) ==
    LET u == SelectSeq(fields, IsUnique)
    IN  [i \in 1..Len(u) |-> UniqueSql(name, u[i])]

\* variant: ON DELETE / ON UPDATE are always appended
HasAction_Always(action) == TRUE

\* if (field.foreign.delete) / if (field.foreign.update)
HasAction(action) == action # << >>

\* the constraint of one column with a foreign key: constraint_fmt, then
\* ON DELETE, then ON UPDATE
ConstraintSql(name, field) ==
    <<Lit(", CONSTRAINT "), Txt(name), Lit("_"), Txt(field.name), Lit("_fkey FOREIGN KEY ("),
      Txt(field.name), Lit(") REFERENCES "), Txt(field.foreign.table), Lit(" ("),
      Txt(field.foreign.column), Lit(")")>>
    \o (IF HasAction(field.foreign.delete)
           THEN <<Lit(" ON DELETE "), Txt(ToUpperCase(field.foreign.delete))>>
           ELSE << >>)
    \o (IF HasAction(field.foreign.update)
           THEN <<Lit(" ON UPDATE "), Txt(ToUpperCase(field.foreign.update))>>
           ELSE << >>)

\* if (field.foreign)
HasForeign(field) == field.foreign.defined

\* for (const field of fields) if (field.foreign) l_constraints.push(...)
Constraints(name, fields) ==
    LET f == SelectSeq(fields, HasForeign)
    IN  [i \in 1..Len(f) |-> ConstraintSql(name, f[i])]

\* variant: one clause per primary-key column
PrimaryKeySql_PerColumn(primaryKey) ==
    Join([i \in 1..Len(primaryKey) |->
            <<Lit(", PRIMARY KEY ("), Txt(primaryKey[i]), Lit(")")>>], Lit(""))

\* ', PRIMARY KEY (%s)' with primaryKey.join(',')
PrimaryKeySql(primaryKey) ==
    <<Lit(", PRIMARY KEY (")>>
    \o Join([i \in 1..Len(primaryKey) |-> <<Txt(primaryKey[i])>>], Lit(","))
    \o <<Lit(")")>>

\* format('CREATE TABLE IF NOT EXISTS %s (%s, PRIMARY KEY (%s)%s) %s;', ...).trim()
\* the text begins with CREATE and ends with ; so trim() removes nothing
TableSql(name, fields, primaryKey, tableOptions) ==
    <<Lit("CREATE TABLE IF NOT EXISTS "), Txt(name), Lit(" (")>>
    \o Join([i \in 1..Len(fields) |-> FieldSql(fields[i])], Lit(", "))
    \o PrimaryKeySql(primaryKey)
    \o Join(Constraints(name, fields), Lit(","))
    \o <<Lit(") ")>>
    \o OrEmpty(tableOptions)
    \o <<Lit(";")>>

\* Types.prepareCreateTable: the function has no throw statement
PrepareSql(name, fields, primaryKey, tableOptions) ==
    [threw |-> FALSE,
     table |-> TableSql(name, fields, primaryKey, tableOptions),
     indexes |-> UniqueIndexes(name, fields)]

\* the options the backend's prepareCreateTable hands to Types.prepareCreateTable
WrapperOptions(m_tableOptions, tableOptions) == tableOptions

PrepCalls ==
    {[name |-> "prepareCreateTable", pc |-> "new", db |-> db,
      m_tableOptions |-> DefaultTableOptions(db), set |-> FALSE,
      table |-> <<"t">>, fields |-> f, primaryKey |-> k, tableOptions |-> o,
      out |-> [threw |-> FALSE, table |-> << >>, indexes |-> << >>]]
        : db \in {"mysql", "postgres", "sqlite"}, f \in PrepFields,
          k \in PrepPrimaryKeys, o \in PrepOptionArgs}

\* set tableOptions (value) { this.m_tableOptions = value }
SetTableOptions(value) ==
    /\ fn.name = "prepareCreateTable"
    /\ fn.pc = "new"
    /\ ~fn.set
    /\ fn' = [fn EXCEPT !.m_tableOptions = value, !.set = TRUE]
    /\ FnFrame

\* db.prepareCreateTable(name, fields, primaryKey, tableOptions)
PrepareCreateTable ==
    /\ fn.name = "prepareCreateTable"
    /\ fn.pc = "new"
    /\ fn' = [fn EXCEPT !.pc = "done",
                        !.out = PrepareSql(fn.table, fn.fields, fn.primaryKey,
                                           WrapperOptions(fn.m_tableOptions, fn.tableOptions))]
    /\ FnFrame

PrepNext ==
    \/ \E value \in SetterValues : SetTableOptions(value)
    \/ PrepareCreateTable

PrepSpec == FnInit(PrepCalls) /\ [][PrepNext]_vars


\* ------------------------------------ prepareMultiInsert / prepareMultiUpdate
\* values?: IValueArray, a list of rows of values
NoValues == [defined |-> FALSE, rows |-> << >>]
Values(rows) == [defined |-> TRUE, rows |-> rows]

\* the rows handed over: one or two values each
RowKinds == {<<<<"1">>>>, <<<<"1">>, <<"2">>>>, <<<<"2">>, <<"1">>>>}
ValueInputs == {NoValues} \cup {Values(r) : r \in UNION {[1..n -> RowKinds] : n \in 0..MaxRows}}

MultiColumns == {<<<<"a">>>>, <<<<"a">>, <<"b">>>>, <<<<"b">>, <<"a">>>>}
MultiPrimaryKeys == {<<<<"i">>>>, <<<<"j">>, <<"i">>>>}

\* escape(values) of mysql and %%L of pg-format for a list of rows: one
\* parenthesised tuple per row, in order, separated by ', '
Escape(rows) ==
    Join([r \in 1..Len(rows) |->
            <<Lit("(")>> \o Join([v \in 1..Len(rows[r]) |-> <<Txt(rows[r][v])>>], Lit(", "))
            \o <<Lit(")")>>],
         Lit(", "))

\* 'INSERT INTO %%s (%%s) VALUES %%L' in MySQL, 'INSERT INTO %%s (%%s) %%L'
\* in SQLite and Postgres
ValuesKeyword(db) == IF db = "mysql" THEN <<Lit("VALUES ")>> ELSE << >>

\* format('INSERT INTO %%s (%%s) ... %%L', table, columns.join(','))
InsertTemplate(db, table, columns) ==
    <<Lit("INSERT INTO "), Txt(table), Lit(" (")>>
    \o Join([i \in 1..Len(columns) |-> <<Txt(columns[i])>>], Lit(","))
    \o <<Lit(") ")>>
    \o ValuesKeyword(db)
    \o <<Lit("%%L")>>

\* query.replace('%%L', escaped) / pgformat(query, values): the first %%L
ReplaceL(query, escaped) ==
    LET p == CHOOSE i \in 1..Len(query) :
                /\ query[i] = Lit("%%L")
                /\ \A j \in 1..(i - 1) : query[j] # Lit("%%L")
    IN  SubSeq(query, 1, p - 1) \o escaped \o SubSeq(query, p + 1, Len(query))

Sql(text) == [threw |-> FALSE, sql |-> text]
Thrown == [threw |-> TRUE, sql |-> << >>]

\* MySQL / SQLite: if (values) return query.replace('%%L', escape(values));
\* return query.  Postgres: return pgformat(query, values), which throws
\* when there is no argument for %%L
PrepareMultiInsert(db, table, columns, values) ==
    LET query == InsertTemplate(db, table, columns)
    IN  IF values.defined
           THEN Sql(ReplaceL(query, Escape(values.rows)))
           ELSE IF db = "postgres" THEN Thrown ELSE Sql(query)

\* variant: the primary-key columns are assigned as well
UpdatedColumns_All(primaryKey, columns) == primaryKey \o columns

\* for (const column of columns) updates.push(...)
UpdatedColumns(primaryKey, columns) == columns

\* format(' %%s = VALUES(%%s)', column, column) in MySQL,
\* format(' %%s = excluded.%%s', column, column) in SQLite and Postgres
UpdateSql(db, column) ==
    IF db = "mysql"
       THEN <<Lit(" "), Txt(column), Lit(" = VALUES("), Txt(column), Lit(")")>>
       ELSE <<Lit(" "), Txt(column), Lit(" = excluded."), Txt(column)>>

\* format('%%s ON DUPLICATE KEY UPDATE %%s', query, updates.join(',')) in MySQL,
\* format('%%s ON CONFLICT (%%s) DO UPDATE SET %%s', query, primaryKey.join(','),
\*        updates.join(',')) in SQLite and Postgres
ConflictClause(db, primaryKey, columns) ==
    LET cols == UpdatedColumns(primaryKey, columns)
        updates == Join([i \in 1..Len(cols) |-> UpdateSql(db, cols[i])], Lit(","))
    IN  IF db = "mysql"
           THEN <<Lit(" ON DUPLICATE KEY UPDATE ")>> \o updates
           ELSE <<Lit(" ON CONFLICT (")>>
                \o Join([i \in 1..Len(primaryKey) |-> <<Txt(primaryKey[i])>>], Lit(","))
                \o <<Lit(") DO UPDATE SET ")>> \o updates

\* const query = this.prepareMultiInsert(table, primaryKey.concat(columns), values)
PrepareMultiUpdate(db, table, primaryKey, columns, values) ==
    LET query == PrepareMultiInsert(db, table, primaryKey \o columns, values)
    IN  IF query.threw
           THEN Thrown
           ELSE Sql(query.sql \o ConflictClause(db, primaryKey, columns))

MultiCalls ==
    {[name |-> "prepareMultiInsert", pc |-> "called", db |-> db, table |-> t,
      primaryKey |-> << >>, columns |-> c, values |-> v, out |-> Sql(<< >>)]
        : db \in {"mysql", "postgres", "sqlite"}, t \in {<<"t">>},
          c \in MultiColumns, v \in ValueInputs}
    \cup
    {[name |-> "prepareMultiUpdate", pc |-> "called", db |-> db, table |-> t,
      primaryKey |-> k, columns |-> c, values |-> v, out |-> Sql(<< >>)]
        : db \in {"mysql", "postgres", "sqlite"}, t \in {<<"t">>},
          k \in MultiPrimaryKeys, c \in MultiColumns, v \in ValueInputs}

\* db.prepareMultiInsert(table, columns, values)
MultiInsert ==
    /\ fn.name = "prepareMultiInsert"
    /\ fn.pc = "called"
    /\ fn' = [fn EXCEPT !.pc = "done",
                        !.out = PrepareMultiInsert(fn.db, fn.table, fn.columns, fn.values)]
    /\ FnFrame

\* db.prepareMultiUpdate(table, primaryKey, columns, values)
MultiUpdate ==
    /\ fn.name = "prepareMultiUpdate"
    /\ fn.pc = "called"
    /\ fn' = [fn EXCEPT !.pc = "done",
                        !.out = PrepareMultiUpdate(fn.db, fn.table, fn.primaryKey,
                                                   fn.columns, fn.values)]
    /\ FnFrame

MultiNext == MultiInsert \/ MultiUpdate

MultiSpec == FnInit(MultiCalls) /\ [][MultiNext]_vars


\* ------------------------------------------------------------ transformQuery
MaxText == 3         \* characters of a statement text

TextInputs == UNION {[1..n -> {"?", "a", "$"}] : n \in 0..MaxText}

Digits == <<"0", "1", "2", "3", "4", "5", "6", "7", "8", "9">>

\* the decimal text of a positive number, as the template literal gives it
RECURSIVE Decimal(_)
Decimal(n) ==
    IF n < 10 THEN <<Digits[n + 1]>> ELSE Decimal(n \div 10) \o <<Digits[(n % 10) + 1]>>

\* query.indexOf('?'), counted from 1; 0 when there is none
IndexOf(query, c) ==
    IF \E i \in 1..Len(query) : query[i] = c
       THEN CHOOSE i \in 1..Len(query) : query[i] = c /\ \A j \in 1..(i - 1) : query[j] # c
       ELSE 0

\* variant: query.replace(/\?/g, ...), every marker at once
ReplaceMarker_Global(query, by) ==
    LET piece(i) == IF query[i] = "?" THEN by ELSE <<query[i]>>
        F[i \in 0..Len(query)] == IF i = 0 THEN << >> ELSE F[i - 1] \o piece(i)
    IN  F[Len(query)]

\* query.replace(/\?/, by): the first marker only
ReplaceMarker(query, by) ==
    LET p == IndexOf(query, "?")
    IN  SubSeq(query, 1, p - 1) \o by \o SubSeq(query, p + 1, Len(query))

\* while (query.indexOf('?') !== -1) {
\*     query = query.replace(/\?/, `$${counter}`); counter++ }
RECURSIVE TransformLoop(_, _)
TransformLoop(query, counter) ==
    IF IndexOf(query, "?") = 0
       THEN query
       ELSE TransformLoop(ReplaceMarker(query, <<"$">> \o Decimal(counter)), counter + 1)

\* let counter = 1; ...; return query
transformQuery(query) == TransformLoop(query, 1)

\* the text handed to the driver: Postgres.query rewrites it, MySQL.query and
\* SQLite.all / SQLite.run pass their argument on
DriverText(db, query) == IF db = "postgres" THEN transformQuery(query) ELSE query

TransformCalls ==
    {[name |-> "query", pc |-> "called", db |-> db, query |-> q, sent |-> << >>]
        : db \in {"mysql", "postgres", "sqlite"}, q \in TextInputs}

\* the driver is called with the statement text
SendToDriver ==
    /\ fn.name = "query"
    /\ fn.pc = "called"
    /\ fn' = [fn EXCEPT !.pc = "sent", !.sent = DriverText(fn.db, fn.query)]
    /\ FnFrame

TransformNext == SendToDriver

TransformSpec == FnInit(TransformCalls) /\ [][TransformNext]_vars


\* ---------------------------------------------------------------- MySQL.query
\* the results the mysql driver hands to the callback: an OkPacket for
\* INSERT, UPDATE and DELETE (no length), an array of rows for SELECT (no
\* changedRows, affectedRows, insertId)
OkPacket(changedRows, affectedRows, insertId) ==
    [changedRows |-> changedRows, affectedRows |-> affectedRows, insertId |-> insertId,
     length |-> Undefined]
RowArray(length) ==
    [changedRows |-> Undefined, affectedRows |-> Undefined, insertId |-> Undefined,
     length |-> length]

\* UPDATE: rows matched and rows changed; DELETE: rows deleted;
\* INSERT: rows inserted and the generated id (0 without auto increment)
DriverResults(verb) ==
    CASE verb = "update" ->
            UNION {{OkPacket(c, a, 0) : c \in 0..a} : a \in 0..MaxRowId}
      [] verb = "delete" -> {OkPacket(0, a, 0) : a \in 0..MaxRowId}
      [] verb = "insert" -> {OkPacket(0, a, i) : a \in 0..MaxRowId, i \in 0..MaxRowId}
      [] verb = "select" -> {RowArray(n) : n \in 0..MaxRows}

\* a || b
Or(a, b) == IF Truthy(a) THEN a ELSE b

\* results.changedRows || results.affectedRows || results.insertId || results.length
QueryCount(results) ==
    Or(results.changedRows, Or(results.affectedRows, Or(results.insertId, results.length)))

MyQueryCalls ==
    UNION {{[name |-> "MySQL.query", pc |-> "called", verb |-> v, values |-> g,
             results |-> r, count |-> Undefined] : g \in BOOLEAN, r \in DriverResults(v)}
           : v \in {"select", "insert", "update", "delete"}}

\* the callback of this.m_db.query(query, values || [], (error, results) => ...)
MyQueryCallback ==
    /\ fn.name = "MySQL.query"
    /\ fn.pc = "called"
    /\ \E error \in BOOLEAN :
        IF error
           THEN fn' = [fn EXCEPT !.pc = "rejected"]
           ELSE fn' = [fn EXCEPT !.pc = "resolved", !.count = QueryCount(fn.results)]
    /\ FnFrame

MyQueryNext == MyQueryCallback

MyQuerySpec == FnInit(MyQueryCalls) /\ [][MyQueryNext]_vars


\* --------------------------------------------------------------- SQLite.query
\* the statement texts handed to query(), with the rows the database would
\* yield for each
QueryCalls ==
    {[name |-> "SQLite.query", pc |-> "called", query |-> q, dbRows |-> r,
      class |-> "none", result |-> NoResult]
        : q \in RunQueries \cup {<<"s", "e", "l", "e", "c", "t">>,
                                 <<"S", "E", "L", "E", "C", "T">>,
                                 <<" ", "s", "e", "l", "e", "c", "t">>,
                                 <<"s", "e", "l", "e", "c">>,
                                 <<"s", "e", "l", "e", "c", "t", " ", "1">>,
                                 <<"x", "s", "e", "l", "e", "c", "t">>},
          r \in RowInputs}

\* the executor of query(): the entry is pushed onto m_allQueue or m_runQueue
QueryRegister ==
    /\ fn.name = "SQLite.query"
    /\ fn.pc = "called"
    /\ fn' = [fn EXCEPT !.pc = "queued", !.class = ClassOfQuery(fn.query)]
    /\ FnFrame

\* the tick handler executes an entry of m_allQueue with all() and one of
\* m_runQueue with run(), and passes the result or the error to the callback
QueryExecute ==
    /\ fn.name = "SQLite.query"
    /\ fn.pc = "queued"
    /\ \/ fn' = [fn EXCEPT !.pc = "rejected"]
       \/ IF fn.class = "read"
             THEN fn' = [fn EXCEPT !.pc = "resolved", !.result = AllResult(fn.dbRows)]
             ELSE \E lastID \in 0..MaxRowId, changes \in 0..MaxRowId :
                    fn' = [fn EXCEPT !.pc = "resolved",
                                     !.result = RunResult(fn.query, lastID, changes)]
    /\ FnFrame

QueryNext == QueryRegister \/ QueryExecute

QuerySpec == FnInit(QueryCalls) /\ [][QueryNext]_vars

\* ================================================================ properties
Settled(o) == handle[o] \in {"resolved", "rejected"}
Active == {h \in Handlers : tick[h].pc \notin {"idle", "rejected"}}
ClassRank(c) == CASE c = "tx" -> 1 [] c = "read" -> 2 [] c = "write" -> 3 [] OTHER -> 0

\* C1: every operation submitted through query() or transaction() is
\* eventually dequeued and its handle resolved or rejected, whatever the
\* outcomes of the statements, BEGIN, COMMIT and ROLLBACK (checked with the
\* tick source and every continuation scheduled fairly).
C1_EverySubmittedOpSettles ==
    \A o \in Ops : (handle[o] = "pending") ~> Settled(o)

\* C2: close() never invokes the connection's close, nor completes, while a
\* submitted operation is unresolved, be it queued or dequeued and in flight.
C2_CloseWaitsForInFlight ==
    [][(m_db = "open" /\ m_db' # "open")
          => \A o \in Ops : handle[o] # "pending"]_vars

\* C3: close() invokes the connection's close only when the transaction
\* queue, the read queue and the write queue are all empty, and keeps
\* waiting while one of them is not.
C3_CloseOnlyWhenQueuesEmpty ==
    [][/\ (m_db = "open" /\ m_db' # "open")
           => (m_transactionQueue = << >> /\ m_allQueue = << >> /\ m_runQueue = << >>)
       /\ (closer' # closer /\ closer \in {"none", "sleeping"}
              /\ (m_transactionQueue # << >> \/ m_allQueue # << >> \/ m_runQueue # << >>))
           => (closer' = "sleeping" /\ m_db' = m_db)]_vars

C3_Witness ==
    /\ m_db = "closing"
    /\ closer = "closing"
    /\ \E o \in Ops : execCount[o] > 0 /\ Settled(o)

\* C4: of two operations of the same class, the one submitted first has
\* been executed and its handle completed before the other starts executing.
C4_FifoWithinClass ==
    \A a, b \in Ops :
        (a < b /\ b <= submitted /\ opInfo[a].class = opInfo[b].class
            /\ execCount[b] > 0)
        => (execCount[a] > 0 /\ Settled(a))

C4_Witness ==
    \E a, b \in Ops :
        /\ a < b
        /\ opInfo[a].class = opInfo[b].class
        /\ opInfo[a].class # "none"
        /\ Settled(a)
        /\ execCount[b] > 0

\* C5: within a drain cycle every transaction of the cycle has completed
\* before a read of the cycle starts, and every read before a write starts.
C5_ClassOrderWithinCycle ==
    \A a, b \in cycleOps :
        ClassRank(opInfo[a].class) < ClassRank(opInfo[b].class) => Settled(a)

C5_Witness ==
    \E a, b, c \in cycleOps :
        /\ opInfo[a].class = "tx"
        /\ opInfo[b].class = "read"
        /\ opInfo[c].class = "write"
        /\ Settled(a) /\ Settled(b)

\* C6: at most one drain cycle is active at any time, and the tick source
\* stays paused for as long as one is.
C6_SingleDrainCycle ==
    /\ Cardinality(Active) <= 1
    /\ (Active # {} => paused)

C6_Witness ==
    \E h \in Handlers :
        /\ tick[h].pc = "query"
        /\ paused
        /\ m_transactionQueue # << >>

\* C7: for every queued transaction BEGIN is issued first, then the
\* statements in list order up to the first failure, COMMIT exactly after
\* BEGIN and every statement succeeded; any failure is followed by ROLLBACK
\* and the transaction's handle is rejected with that failure.
FirstFailure(log) ==
    LET bad == {j \in 1..Len(log) : ~log[j].ok}
        j == CHOOSE k \in bad : \A m \in bad : k <= m
    IN  log[j]

C7_TransactionProtocol ==
    \A o \in Ops :
        opInfo[o].class = "tx" =>
        LET log == txlog[o]
            n == Len(opInfo[o].queries)
        IN
        /\ Len(log) > 0 => log[1].call = "BEGIN"
        /\ \A j \in 2..Len(log) :
            /\ log[j-1].call # "ROLLBACK"
            /\ ~(log[j-1].call = "COMMIT" /\ log[j-1].ok)
            /\ log[j-1].ok =>
                  IF j - 1 <= n
                     THEN log[j].call = "query" /\ log[j].i = j - 1
                     ELSE log[j].call = "COMMIT"
            /\ ~log[j-1].ok => log[j].call = "ROLLBACK"
        /\ (Len(log) > 0 /\ ~log[Len(log)].ok /\ log[Len(log)].call # "ROLLBACK")
              => \E h \in Handlers : tick[h].pc = "rollback" /\ tick[h].entry.id = o
        /\ (handle[o] = "resolved")
              <=> (Len(log) > 0 /\ log[Len(log)].call = "COMMIT" /\ log[Len(log)].ok)
        /\ (Len(log) > 0 /\ log[Len(log)].call = "ROLLBACK")
              => /\ handle[o] = "rejected"
                 /\ handleErr[o] = Error(o, FirstFailure(log).call, FirstFailure(log).i)

\* C8: the error of a failed operation reaches only that operation's own
\* handle, and every other operation that was queued when it failed is still
\* executed and its handle completed (checked with the tick source and every
\* continuation scheduled fairly).
C8_FailureIsolated ==
    /\ [](\A o \in Ops : handleErr[o] # NoError => handleErr[o].op = o)
    /\ \A o \in Ops : (o \in siblings) ~> Settled(o)

\* C9: no operation is executed more than once, no handle is completed more
\* than once, and a dequeued operation is in no queue again.
C9_ConsumedExactlyOnce ==
    \A o \in Ops :
        /\ execCount[o] <= 1
        /\ doneCount[o] <= 1
        /\ execCount[o] > 0 => o \notin QueuedIds

C9_Witness ==
    \E a, b \in Ops :
        /\ a # b
        /\ execCount[a] = 1 /\ doneCount[a] = 1
        /\ execCount[b] = 1 /\ doneCount[b] = 1

\* C10: once a pooled transaction() holds a connection it releases it
\* exactly once on every exit path: success, failure of BEGIN or of a
\* statement, failure of COMMIT, failure of ROLLBACK.
C10_ReleasedExactlyOnce ==
    \A t \in Callers :
        ptx[t].kind = "tx" =>
        /\ relCount[t] <= 1
        /\ ptx[t].pc \in {"begin", "query", "commit", "rollback"}
              => (relCount[t] = 0 /\ pool[ptx[t].conn] = t)
        /\ (ptx[t].pc \in {"resolved", "rejected"} /\ ptx[t].conn # 0)
              => (relCount[t] = 1 /\ pool[ptx[t].conn] # t)
        /\ ptx[t].conn = 0 => relCount[t] = 0

C10_Witness ==
    \E t \in Callers :
        /\ ptx[t].kind = "tx"
        /\ ptx[t].pc = "rejected"
        /\ ptx[t].e.call = "ROLLBACK"
        /\ relCount[t] = 1

\* C11: a pooled query() never keeps a connection beyond its own execution:
\* once it has resolved or rejected, the connection it took is back in the
\* pool, whether the statement succeeded or failed.
C11_QueryHoldsNoConnection ==
    \A t \in Callers :
        (ptx[t].kind = "query" /\ ptx[t].pc \in {"resolved", "rejected"})
            => \A c \in Conns : pool[c] # t

\* C12: a pooled transaction holds exactly one connection from its
\* acquisition to its release, sends BEGIN, every statement and COMMIT or
\* ROLLBACK on that connection, and no other caller has a call running on it
\* in between.
C12_TransactionPinsConnection ==
    \A t \in Callers :
        (ptx[t].kind = "tx" /\ ptx[t].pc \in {"begin", "query", "commit", "rollback"})
        => /\ {c \in Conns : pool[c] = t} = {ptx[t].conn}
           /\ ptx[t].on = ptx[t].conn
           /\ \A u \in Callers \ {t} : ptx[u].on # ptx[t].conn

C12_Witness ==
    \E t, u \in Callers :
        /\ t # u
        /\ ptx[t].kind = "tx" /\ ptx[t].pc = "query" /\ ptx[t].i = 2
        /\ ptx[u].pc \in {"qexec", "query"}

\* C13: query() and transaction() only register the operation: one entry is
\* appended at the tail of the queue of its class and a pending handle is
\* returned; the other two queues, the paused flag, the handler and the
\* connection are left alone, and nothing of a queued operation has been
\* executed.
C13_SubmissionOnlyRegisters ==
    [][submitted' # submitted =>
        LET o == submitted'
            c == opInfo'[o].class
        IN
        /\ submitted' = submitted + 1
        /\ handle' = [handle EXCEPT ![o] = "pending"]
        /\ c = "tx" =>
              /\ Len(m_transactionQueue') = Len(m_transactionQueue) + 1
              /\ SubSeq(m_transactionQueue', 1, Len(m_transactionQueue)) = m_transactionQueue
              /\ m_transactionQueue'[Len(m_transactionQueue')].id = o
              /\ m_allQueue' = m_allQueue /\ m_runQueue' = m_runQueue
        /\ c = "read" =>
              /\ Len(m_allQueue') = Len(m_allQueue) + 1
              /\ SubSeq(m_allQueue', 1, Len(m_allQueue)) = m_allQueue
              /\ m_allQueue'[Len(m_allQueue')].id = o
              /\ m_transactionQueue' = m_transactionQueue /\ m_runQueue' = m_runQueue
        /\ c = "write" =>
              /\ Len(m_runQueue') = Len(m_runQueue) + 1
              /\ SubSeq(m_runQueue', 1, Len(m_runQueue)) = m_runQueue
              /\ m_runQueue'[Len(m_runQueue')].id = o
              /\ m_transactionQueue' = m_transactionQueue /\ m_allQueue' = m_allQueue
        /\ c \in {"tx", "read", "write"}
        /\ paused' = paused /\ tick' = tick /\ m_db' = m_db /\ closer' = closer
        /\ execCount' = execCount /\ doneCount' = doneCount /\ txlog' = txlog
        /\ \A q \in QueuedIds' :
              execCount'[q] = 0 /\ txlog'[q] = << >> /\ handle'[q] = "pending"]_vars

C13_Witness ==
    /\ paused
    /\ \E h \in Handlers : tick[h].pc = "begin"
    /\ Len(m_runQueue) = 2
    /\ \A i \in 1..2 : execCount[m_runQueue[i].id] = 0 /\ handle[m_runQueue[i].id] = "pending"

\* C14: at most one operation has a call running on the connection at any
\* time, and while a transaction is between its BEGIN and the end of its
\* COMMIT or ROLLBACK no call of another operation runs.
OnConnection ==
    {h \in Handlers : tick[h].pc \in {"begin", "query", "commit", "rollback", "all", "run"}}

C14_OneOperationOnConnection ==
    /\ Cardinality({tick[h].entry.id : h \in OnConnection}) <= 1
    /\ Cardinality(OnConnection) <= 1
    /\ \A h \in Handlers :
          tick[h].pc \in {"begin", "query", "commit", "rollback", "rejected"}
              => OnConnection \subseteq {h}

C14_Witness ==
    \E h \in Handlers :
        /\ tick[h].pc = "commit"
        /\ m_allQueue # << >>
        /\ m_runQueue # << >>

\* C15 as stated: when the tick source is resumed at the end of a drain
\* cycle the transaction queue, the read queue and the write queue are all
\* empty.
C15_AllQueuesEmptyAtResume ==
    [][(paused /\ ~paused')
          => (m_transactionQueue' = << >> /\ m_allQueue' = << >> /\ m_runQueue' = << >>)]_vars

\* C15 as amended: when the tick source is resumed at the end of a drain
\* cycle the write queue is empty, and whatever the transaction queue and
\* the read queue hold was submitted during that cycle after the loop of its
\* class had ended.
C15_OnlyLateOpsQueuedAtResume ==
    [][(paused /\ ~paused')
          => /\ m_runQueue' = << >>
             /\ QueuedIds' \subseteq lateOps'
             /\ \A o \in QueuedIds' : opInfo'[o].class \in {"tx", "read"}]_vars

C15_Witness ==
    /\ ~paused
    /\ \A h \in Handlers : tick[h].pc = "idle"
    /\ \E o \in QueuedIds : o \in lateOps /\ opInfo[o].class = "tx"
    /\ \E o \in Ops : Settled(o)

\* C16: createTable() never hands a failure of the table batch or of the
\* index batch to its caller: its promise is never rejected, and once a
\* batch has failed the promise is resolved and the error of that batch has
\* been emitted on 'error', exactly once.
C16_CreateTableNeverRejects ==
    ct.pc # "none" =>
        /\ ct.promise # "rejected"
        /\ (ct.pc = "done" /\ \E b \in 1..Len(ct.batches) : ct.batches[b].result = "failed")
              => /\ ct.promise = "resolved"
                 /\ Len(ct.emitted) = 1
                 /\ ct.emitted[1].op = Len(ct.batches)

\* C17: createTable() submits the table transaction first and the index
\* transaction second; the index transaction is submitted only once the
\* table transaction has succeeded, never after it failed, and never when no
\* column is flagged unique; with a unique column and a successful table
\* transaction it is submitted before createTable() finishes.
C17_TableThenIndex ==
    ct.pc # "none" =>
        LET n == Len(ct.batches)
            unique == {i \in 1..Len(ct.fields) : ct.fields[i].unique = "true"}
        IN
        /\ n \in 1..2
        /\ ct.batches[1].stmts = <<TableStmt>>
        /\ n = 2 => /\ ct.batches[1].result = "ok"
                    /\ unique # {}
                    /\ Len(ct.batches[2].stmts) = Cardinality(unique)
                    /\ \A k \in 1..Len(ct.batches[2].stmts) :
                          /\ ct.batches[2].stmts[k].kind = "index"
                          /\ ct.batches[2].stmts[k].col \in unique
        /\ ct.batches[1].result # "ok" => n = 1
        /\ unique = {} => n = 1
        /\ (ct.pc = "done" /\ ct.batches[1].result = "ok" /\ unique # {}) => n = 2

C17_Witness ==
    /\ ct.pc = "done"
    /\ Len(ct.batches) = 2
    /\ ct.batches[2].result = "ok"
    /\ Len(ct.batches[2].stmts) = 1
    /\ Len(ct.fields) = 2

\* C18: when a statement of a transaction fails, transaction() rejects with
\* the error of that statement: the step that ends the ROLLBACK following a
\* failed statement rejects the pooled caller, respectively the handle of the
\* queued SQLite transaction, with the statement's error.
C18_StatementErrorReported ==
    [][/\ \A t \in Callers :
            (ptx[t].pc = "rollback" /\ ptx[t].e.call = "query" /\ ptx'[t].pc # "rollback")
                => (ptx'[t].pc = "rejected" /\ ptx'[t].e = ptx[t].e)
       /\ \A h \in Handlers :
            (tick[h].pc = "rollback" /\ tick[h].e.call = "query" /\ tick'[h].pc # "rollback")
                => /\ handle'[tick[h].entry.id] = "rejected"
                   /\ handleErr'[tick[h].entry.id] = tick[h].e]_vars

\* C19: run() resolves with the driver's lastID as count when the statement
\* text starts with 'insert' in any letter case, with the driver's changes
\* when it starts with 'update' or 'delete' in any letter case, and with 0
\* for every other text; the rows are always empty.
C19_RunCountByVerb ==
    (fn.name = "run" /\ fn.pc = "resolved") =>
        LET q == fn.query
            Has(p) == Len(q) >= Len(p) /\ \A i \in 1..Len(p) : ToLowerChar(q[i]) = p[i]
        IN
        /\ fn.result.rows = << >>
        /\ Has(InsertPrefix) => fn.result.count = fn.lastID
        /\ (Has(UpdatePrefix) \/ Has(DeletePrefix)) => fn.result.count = fn.changes
        /\ ~(Has(InsertPrefix) \/ Has(UpdatePrefix) \/ Has(DeletePrefix))
              => fn.result.count = 0

C19_Witness ==
    /\ fn.name = "run"
    /\ fn.pc = "resolved"
    /\ fn.query = <<"I", "N", "S", "E", "R", "T">>
    /\ fn.lastID = 2
    /\ fn.changes = 1
    /\ fn.result.count = 2

\* C20: when the driver reports no error, getPragma(name) resolves with the
\* setting's value if the PRAGMA statement yields exactly one row, and with
\* the sequence of the values of the column called name if it yields
\* several rows.
C20_PragmaValueOrSequence ==
    (/\ fn.name = "getPragma"
     /\ fn.pc = "done"
     /\ fn.out.kind # "error"
     /\ \A i \in 1..Len(fn.dbRows) : fn.dbRows[i].col = fn.option)
        => /\ Len(fn.dbRows) = 1 => fn.out = Out("value", <<fn.dbRows[1].val>>)
           /\ Len(fn.dbRows) > 1
                => fn.out = Out("list", [i \in 1..Len(fn.dbRows) |-> fn.dbRows[i].val])

\* C21: setPragma(name, value) submits 'PRAGMA name(value)' exactly when the
\* lower-cased name is one of the eleven names of pragmaFunctionCalls, and
\* 'PRAGMA name = value' for every other name (name in lower case).
C21_FunctionCallSyntaxByName ==
    (fn.name = "setPragma" /\ fn.pc = "submitted") =>
        LET lowered == [i \in 1..Len(fn.option) |-> ToLowerChar(fn.option[i])]
            listed == lowered \in {pragmaFunctionCalls[i] : i \in 1..Len(pragmaFunctionCalls)}
            head == QPragma \o <<" ">> \o lowered
        IN
        /\ Cardinality({pragmaFunctionCalls[i] : i \in 1..Len(pragmaFunctionCalls)}) = 11
        /\ listed <=> fn.query = head \o <<"(">> \o fn.value \o <<")">>
        /\ ~listed <=> fn.query = head \o <<" ", "=", " ">> \o fn.value

C21_Witness ==
    /\ fn.name = "setPragma"
    /\ fn.pc = "submitted"
    /\ fn.option[1] = "O"
    /\ fn.query[Len(fn.query)] = ")"

\* C22: given an empty primary-key list, or a primary-key name that is not a
\* declared column, prepareCreateTable raises an error and returns no SQL.
C22_MalformedSpecRejected ==
    (/\ fn.name = "prepareCreateTable"
     /\ fn.pc = "done"
     /\ \/ fn.primaryKey = << >>
        \/ \E i \in 1..Len(fn.primaryKey) :
              \A j \in 1..Len(fn.fields) : fn.fields[j].name # fn.primaryKey[i])
        => (fn.out.threw /\ fn.out.table = << >> /\ fn.out.indexes = << >>)

\* the table-options fragment of a table statement: the piece between the
\* closing parenthesis of the column list and the final semicolon
OptionsFragment(sql) ==
    IF sql[Len(sql) - 1] = Lit(") ") THEN << >> ELSE sql[Len(sql) - 1].text

\* C23: the table-options fragment of the CREATE TABLE statement is the
\* caller's options argument when one is passed, and otherwise the backend's
\* current tableOptions value (its default, or the value last set).
C23_OptionsDefaultToBackend ==
    (fn.name = "prepareCreateTable" /\ fn.pc = "done") =>
        OptionsFragment(fn.out.table) =
            IF fn.tableOptions.defined THEN fn.tableOptions.text ELSE fn.m_tableOptions.text

\* the positions of a literal piece in a statement
PositionsOf(sql, lit) == {i \in 1..Len(sql) : sql[i] = Lit(lit)}

\* C24: the table statement contains exactly one PRIMARY KEY (...) clause,
\* and the clause lists the primary-key names in the given order, separated
\* by commas.
C24_OnePrimaryKeyClause ==
    (fn.name = "prepareCreateTable" /\ fn.pc = "done") =>
        LET sql == fn.out.table
            pk == fn.primaryKey
            at == PositionsOf(sql, ", PRIMARY KEY (")
        IN
        /\ Cardinality(at) = 1
        /\ \A p \in at :
            /\ \A i \in 1..Len(pk) : sql[p + 2 * i - 1] = Txt(pk[i])
            /\ \A i \in 1..(Len(pk) - 1) : sql[p + 2 * i] = Lit(",")
            /\ sql[p + (IF Len(pk) = 0 THEN 1 ELSE 2 * Len(pk))] = Lit(")")

C24_Witness ==
    /\ fn.name = "prepareCreateTable"
    /\ fn.pc = "done"
    /\ Len(fn.primaryKey) = 2
    /\ Len(fn.fields) = 2

\* C25: the index list holds, in column order, exactly one CREATE UNIQUE
\* INDEX IF NOT EXISTS <table>_unique_<column> statement for every column
\* whose unique flag is true and none for the other columns; the table
\* statement contains no index statement.
C25_OneIndexPerUniqueColumn ==
    (fn.name = "prepareCreateTable" /\ fn.pc = "done") =>
        LET idx == fn.out.indexes
            unique == {i \in 1..Len(fn.fields) : fn.fields[i].unique = "true"}
            \* the number of unique columns among the first i
            Rank(i) == Cardinality({j \in unique : j <= i})
        IN
        /\ Len(idx) = Cardinality(unique)
        /\ \A i \in unique :
            /\ idx[Rank(i)][1] = Lit("CREATE UNIQUE INDEX IF NOT EXISTS ")
            /\ idx[Rank(i)][2] = Txt(fn.table)
            /\ idx[Rank(i)][3] = Lit("_unique_")
            /\ idx[Rank(i)][4] = Txt(fn.fields[i].name)
            /\ Cardinality(PositionsOf(idx[Rank(i)], "CREATE UNIQUE INDEX IF NOT EXISTS ")) = 1
        /\ PositionsOf(fn.out.table, "CREATE UNIQUE INDEX IF NOT EXISTS ") = {}
        /\ PositionsOf(fn.out.table, "_unique_") = {}

C25_Witness ==
    /\ fn.name = "prepareCreateTable"
    /\ fn.pc = "done"
    /\ Len(fn.fields) = 2
    /\ fn.fields[1].unique = "undefined"
    /\ fn.fields[2].unique = "true"
    /\ Len(fn.out.indexes) = 1

\* C26: the table statement holds one constraint <table>_<column>_fkey for
\* every column with a foreign key, in column order, and none for the other
\* columns; a constraint has an ON DELETE clause exactly when the key has a
\* delete action and an ON UPDATE clause exactly when it has an update
\* action, each followed by the action in upper case.
C26_ForeignKeyConstraints ==
    (fn.name = "prepareCreateTable" /\ fn.pc = "done") =>
        LET sql == fn.out.table
            at == PositionsOf(sql, ", CONSTRAINT ")
            foreign == {i \in 1..Len(fn.fields) : fn.fields[i].foreign.defined}
            Rank(i) == Cardinality({j \in foreign : j <= i})
            \* where the k-th constraint starts, and where it ends
            Start(k) == CHOOSE p \in at : Cardinality({q \in at : q <= p}) = k
            End(k) == IF k = Cardinality(at) THEN CHOOSE p \in PositionsOf(sql, ") ") : p > Start(k)
                                               ELSE Start(k + 1)
            Within(k, lit) == {p \in PositionsOf(sql, lit) : Start(k) < p /\ p < End(k)}
            IsUpperOf(text, action) ==
                /\ Len(text) = Len(action)
                /\ \A c \in 1..Len(text) :
                      /\ ToLowerChar(text[c]) = ToLowerChar(action[c])
                      /\ \A l \in 1..Len(LowerCaseLetters) : text[c] # LowerCaseLetters[l]
        IN
        /\ Cardinality(at) = Cardinality(foreign)
        /\ \A i \in foreign :
            LET k == Rank(i)
                fk == fn.fields[i].foreign
            IN
            /\ sql[Start(k) + 1] = Txt(fn.table)
            /\ sql[Start(k) + 2] = Lit("_")
            /\ sql[Start(k) + 3] = Txt(fn.fields[i].name)
            /\ sql[Start(k) + 4] = Lit("_fkey FOREIGN KEY (")
            /\ Cardinality(Within(k, " ON DELETE ")) = (IF fk.delete # << >> THEN 1 ELSE 0)
            /\ Cardinality(Within(k, " ON UPDATE ")) = (IF fk.update # << >> THEN 1 ELSE 0)
            /\ \A p \in Within(k, " ON DELETE ") : IsUpperOf(sql[p + 1].text, fk.delete)
            /\ \A p \in Within(k, " ON UPDATE ") : IsUpperOf(sql[p + 1].text, fk.update)

C26_Witness ==
    /\ fn.name = "prepareCreateTable"
    /\ fn.pc = "done"
    /\ Len(fn.fields) = 2
    /\ fn.fields[1].foreign.defined /\ fn.fields[1].foreign.delete = SetNull
    /\ fn.fields[1].foreign.update = << >>
    /\ fn.fields[2].foreign.defined /\ fn.fields[2].foreign.delete = Cascade
    /\ fn.fields[2].foreign.update = SetNull

\* C27: for every backend, prepareMultiInsert(table, columns, rows) with a
\* non-empty list of rows yields INSERT INTO <table> (<columns joined by
\* commas>) VALUES followed by one tuple per row, in row order.
C27_InsertIntoValuesTuples ==
    (/\ fn.name = "prepareMultiInsert"
     /\ fn.pc = "done"
     /\ fn.values.defined
     /\ Len(fn.values.rows) > 0)
        => LET sql == fn.out.sql
               n == Len(fn.columns)
               open == PositionsOf(sql, "(")
               Tuple(k) == CHOOSE p \in open : Cardinality({q \in open : q <= p}) = k
           IN
           /\ ~fn.out.threw
           /\ sql[1] = Lit("INSERT INTO ")
           /\ sql[2] = Txt(fn.table)
           /\ sql[3] = Lit(" (")
           /\ \A i \in 1..n : sql[2 + 2 * i] = Txt(fn.columns[i])
           /\ \A i \in 1..(n - 1) : sql[3 + 2 * i] = Lit(",")
           /\ sql[3 + 2 * n] = Lit(") ")
           /\ sql[4 + 2 * n] = Lit("VALUES ")
           /\ PositionsOf(sql, "VALUES ") = {4 + 2 * n}
           /\ PositionsOf(sql, "%L") = {}
           /\ Cardinality(open) = Len(fn.values.rows)
           /\ \A k \in 1..Len(fn.values.rows) :
                 /\ Tuple(k) > 4 + 2 * n
                 /\ \A v \in 1..Len(fn.values.rows[k]) :
                       sql[Tuple(k) + 2 * v - 1] = Txt(fn.values.rows[k][v])
                 /\ sql[Tuple(k) + 2 * Len(fn.values.rows[k])] = Lit(")")

\* C28: for every backend, the conflict clause of prepareMultiUpdate(table,
\* primaryKeyCols, otherCols, rows) has exactly one assignment per column of
\* otherCols, in the order of otherCols, and none for a primary-key column;
\* the column list of the insert part is primaryKeyCols followed by
\* otherCols.
C28_UpsertAssignsOtherColumns ==
    (fn.name = "prepareMultiUpdate" /\ fn.pc = "done" /\ ~fn.out.threw) =>
        LET sql == fn.out.sql
            all == fn.primaryKey \o fn.columns
            clause == PositionsOf(sql, " ON DUPLICATE KEY UPDATE ")
                      \cup PositionsOf(sql, ") DO UPDATE SET ")
            assign == PositionsOf(sql, " = VALUES(") \cup PositionsOf(sql, " = excluded.")
            Nth(k) == CHOOSE p \in assign : Cardinality({q \in assign : q <= p}) = k
        IN
        /\ Cardinality(clause) = 1
        /\ \A i \in 1..Len(all) : sql[2 + 2 * i] = Txt(all[i])
        /\ sql[3 + 2 * Len(all)] = Lit(") ")
        /\ Cardinality(assign) = Len(fn.columns)
        /\ \A k \in 1..Len(fn.columns) :
              /\ \A c \in clause : Nth(k) > c
              /\ sql[Nth(k) - 1] = Txt(fn.columns[k])
              /\ sql[Nth(k) + 1] = Txt(fn.columns[k])
        /\ \A p \in assign : \A i \in 1..Len(fn.primaryKey) : sql[p - 1] # Txt(fn.primaryKey[i])
        /\ (fn.db = "mysql") <=> (PositionsOf(sql, " ON DUPLICATE KEY UPDATE ") # {})

C28_Witness ==
    /\ fn.name = "prepareMultiUpdate"
    /\ fn.pc = "done"
    /\ fn.db = "sqlite"
    /\ Len(fn.primaryKey) = 2
    /\ Len(fn.columns) = 2
    /\ fn.values.defined /\ Len(fn.values.rows) = 2

\* the text in which, reading from the left, the marker number n, n + 1, ...
\* is replaced by $n, $(n + 1), ...
RECURSIVE NumberedFrom(_, _)
NumberedFrom(text, n) ==
    IF text = << >>
       THEN << >>
       ELSE IF Head(text) = "?"
               THEN <<"$">> \o Decimal(n) \o NumberedFrom(Tail(text), n + 1)
               ELSE <<Head(text)>> \o NumberedFrom(Tail(text), n)

\* C29: the text sent to the driver depends on the statement text only: on
\* Postgres the n-th '?' from the left is replaced by '$n' and no '?'
\* remains; on MySQL and SQLite the text is sent unchanged.
C29_PlaceholderRewrite ==
    (fn.name = "query" /\ fn.pc = "sent") =>
        IF fn.db = "postgres"
           THEN /\ fn.sent = NumberedFrom(fn.query, 1)
                /\ \A i \in 1..Len(fn.sent) : fn.sent[i] # "?"
           ELSE fn.sent = fn.query

C29_Witness ==
    /\ fn.name = "query"
    /\ fn.pc = "sent"
    /\ fn.db = "postgres"
    /\ fn.query = <<"?", "a", "?">>
    /\ fn.sent = <<"$", "1", "a", "$", "2">>

\* C30: MySQL.query resolves with a count that follows the statement verb:
\* the rows changed for UPDATE, the rows deleted for DELETE, the generated id
\* (or 1 when there is none) for INSERT, the number of rows for SELECT,
\* whatever the driver reports.
C30_CountFollowsVerb ==
    (fn.name = "MySQL.query" /\ fn.pc = "resolved") =>
        CASE fn.verb = "update" -> fn.count = fn.results.changedRows
          [] fn.verb = "delete" -> fn.count = fn.results.affectedRows
          [] fn.verb = "insert" ->
                fn.count = (IF fn.results.insertId # 0 THEN fn.results.insertId ELSE 1)
          [] fn.verb = "select" -> fn.count = fn.results.length

\* C31: every drain cycle that starts finishes: once the tick handler has
\* paused the tick source it reaches the point where it resumes it, whatever
\* the outcomes of BEGIN, the statements, COMMIT and ROLLBACK (checked with
\* the tick source and every continuation scheduled fairly).
C31_DrainCycleFinishes ==
    paused ~> ~paused

\* C32: once close() has been called and no further operation is submitted,
\* close() eventually calls the connection's close and completes, whatever
\* the outcomes of the operations that were queued (checked with the tick
\* source and every continuation scheduled fairly; no further operation can
\* be submitted once MaxOps have been).
C32_CloseCompletes ==
    (closer # "none" /\ submitted = MaxOps) ~> (closer \in {"resolved", "rejected"})

\* C33: every operation that is in a queue when a drain cycle starts has
\* been dequeued by that cycle, exactly once, and has had its handle
\* completed when the cycle ends by resuming the tick source; none of them
\* is still queued for a later tick.
C33_QueuedAtTickDoneInCycle ==
    [][(paused /\ ~paused')
          => \A o \in atTick :
                /\ o \in cycleOps
                /\ execCount'[o] = 1
                /\ doneCount'[o] = 1
                /\ handle'[o] \in {"resolved", "rejected"}
                /\ o \notin QueuedIds']_vars

C33_Witness ==
    \E h \in Handlers :
        /\ tick[h].pc \in {"all", "run"}
        /\ QueuedIds = {}
        /\ Cardinality(atTick) >= 2
        /\ tick[h].entry.id \in atTick
        /\ \E o \in atTick : opInfo[o].class = "tx"
        /\ \A o \in atTick \ {tick[h].entry.id} : Settled(o)

\* C34: an operation submitted while a drain cycle is running is dequeued by
\* that cycle exactly when the loop of its class had not ended at its
\* submission: the running cycle never dequeues an operation submitted after
\* the loop of its class ended, and when the cycle ends no operation
\* submitted before the loop of its class ended is still queued. A
\* transaction submitted after the transaction loop therefore waits for the
\* next cycle while a write submitted after it is executed in this one.
C34_PickedUpUntilLoopEnds ==
    [][/\ \A o \in Ops :
            (paused /\ execCount'[o] > execCount[o])
               => (o \in atTick \/ o \notin lateOps)
       /\ (paused /\ ~paused')
            => \A o \in 1..submitted :
                  (o \notin lateOps /\ o \notin atTick) => execCount'[o] = 1]_vars

C34_Witness ==
    \E t, w \in 1..submitted :
        /\ t < w
        /\ opInfo[t].class = "tx"
        /\ opInfo[w].class = "write"
        /\ paused
        /\ t \in QueuedIds /\ t \in lateOps /\ t \notin atTick
        /\ w \notin atTick /\ w \in cycleOps
        /\ execCount[w] = 1
        /\ execCount[t] = 0

\* C35: SQLite.query() registers a statement in the read queue, and has it
\* executed on the row-returning path, exactly when its first six characters
\* are 's', 'e', 'l', 'e', 'c', 't' in either case; every other statement,
\* a PRAGMA or one with a leading blank included, is registered in the write
\* queue and resolves with an empty row payload.
C35_ReadIffStartsWithSelect ==
    (fn.name = "SQLite.query" /\ fn.pc # "called") =>
        LET startsWithSelect ==
                /\ Len(fn.query) >= Len(SelectPrefix)
                /\ \A i \in 1..Len(SelectPrefix) :
                      fn.query[i] \in {SelectPrefix[i], ToUpperChar(SelectPrefix[i])}
        IN  /\ fn.class = (IF startsWithSelect THEN "read" ELSE "write")
            /\ fn.pc = "resolved" =>
                  IF startsWithSelect
                     THEN fn.result.rows = fn.dbRows /\ fn.result.count = Len(fn.dbRows)
                     ELSE fn.result.rows = << >>

C35_Witness ==
    /\ fn.name = "SQLite.query"
    /\ fn.pc = "resolved"
    /\ fn.query = QPragma
    /\ fn.dbRows # << >>
    /\ fn.class = "write"
    /\ fn.result.rows = << >>

\* C36: close() leaves the tick source running: an operation submitted after
\* close() has completed is dequeued by a later tick, executed on the closed
\* connection and its handle resolved or rejected with the outcome of the
\* driver; it does not stay pending forever (checked with the tick source
\* and every continuation scheduled fairly).
C36_SettledAfterClose ==
    \A o \in Ops :
        []((closer = "resolved" /\ submitted < o)
              => [](handle[o] = "pending" => <>Settled(o)))

\* C37: createTable() does not undo its first transaction when its second
\* fails: once the unique-index transaction has failed, createTable() is
\* over without a further transaction, the table statement committed by the
\* first transaction is still in the database and, unless the ROLLBACK of
\* the index transaction itself failed, no index statement is: the table
\* exists without its unique indexes.
C37_TableKeptWhenIndexesFail ==
    (ct.pc # "none" /\ Len(ct.batches) = 2 /\ ct.batches[2].result = "failed") =>
        /\ ct.pc = "done"
        /\ ct.batches[1].result = "ok"
        /\ TableStmt \in ct.schema
        /\ (\A b \in 1..Len(ct.emitted) : ct.emitted[b].call # "ROLLBACK") /\ ct.e.call # "ROLLBACK"
              => \A st \in ct.schema : st.kind # "index"

C37_Witness ==
    /\ ct.pc = "done"
    /\ Len(ct.batches) = 2
    /\ ct.batches[2].result = "failed"
    /\ ct.schema = {TableStmt}
    /\ Len(ct.batches[2].stmts) = 2
====
